---------------------------- MODULE Spec2Model ----------------------------
(***************************************************************************)
(* Delta-join rendering (src/dataflow/src/render/delta_join.rs).           *)
(*                                                                         *)
(* render_delta_join builds, for a join of N inputs, one delta stream per  *)
(* input: a pipeline of filter and lookup stages ending in a permutation.  *)
(* The model follows the construction of the graph statement by statement  *)
(* and then runs the constructed graph on sets of input updates.           *)
(*                                                                         *)
(* Column indices and row positions are 0-based as in the source; TLA+     *)
(* sequences are 1-based, so position p of a sequence s is s[p + 1].       *)
(***************************************************************************)
EXTENDS Integers, Sequences, FiniteSets

VARIABLES
    plan,             \* the RelationExpr::Join being rendered and the predicates argument
    ctx,              \* the Context: which arrangements exist and their flavor
    pc,               \* position of render_delta_join
    panic,            \* message of the panic that aborted rendering ("" if none)
    rendered,         \* relations ensure_rendered has been called on
    relation,         \* loop variable of `for relation in 0..inputs.len()`
    step,             \* 0-based index of the next entry of orders[relation]
    equivalences,     \* the root iteration's private copy of the equivalences
    predicates,       \* the root iteration's private copy of the predicates
    source_columns,   \* the sources of each column of update_stream
    bound_inputs,     \* the inputs joined so far
    update_stream,    \* the stages built so far for the current delta stream
    started,          \* what the current root iteration started from
    region_errs,      \* error streams of the current region
    inner_errs,       \* error streams of the inner scope
    scope_errs,       \* error streams of the ambient scope
    local_err_dedup,  \* (relation, key) of the local arrangements already probed
    trace_err_dedup,  \* (relation, key) of the trace arrangements already probed
    delta_queries,    \* the finished delta streams
    updates           \* the updates the inputs have received

vars == <<plan, ctx, pc, panic, rendered, relation, step, equivalences,
          predicates, source_columns, bound_inputs, update_stream, started,
          region_errs, inner_errs, scope_errs, local_err_dedup,
          trace_err_dedup, delta_queries, updates>>

-----------------------------------------------------------------------------
(* Sequences.                                                              *)

Range(s) == {s[i] : i \in DOMAIN s}

Contains(s, x) == \E i \in DOMAIN s : s[i] = x

\* Iterator::position: the 0-based index of the first element equal to x.
\* Only used where Contains(s, x); the callers model the `expect`.
Position(s, x) == (CHOOSE i \in DOMAIN s : s[i] = x /\ \A j \in 1..(i - 1) : s[j] # x) - 1

RECURSIVE Flatten(_)
Flatten(ss) == IF ss = <<>> THEN <<>> ELSE Head(ss) \o Flatten(Tail(ss))

\* The sum of w[x] over the x in S.
RECURSIVE SumOver(_, _)
SumOver(S, w) ==
    IF S = {} THEN 0
    ELSE LET x == CHOOSE y \in S : TRUE IN w[x] + SumOver(S \ {x}, w)

-----------------------------------------------------------------------------
(* Datums and scalar expressions (crates repr and expr).                   *)

\* Datum values that occur in rows; predicates evaluate to "true"/"false".
Null == "null"

\* ScalarExpr, the variants the model uses.
Col(c) == <<"col", c>>
Lit(v) == <<"lit", v>>
Inv(e) == <<"inv", e>>          \* CallUnary of a fallible function: 1 / e
Eq(a, b) == <<"eq", a, b>>      \* CallBinary { func: BinaryFunc::Eq }

\* ScalarExpr::support: the columns an expression references.
RECURSIVE Support(_)
Support(e) ==
    CASE e[1] = "col" -> {e[2]}
      [] e[1] = "lit" -> {}
      [] e[1] = "inv" -> Support(e[2])
      [] OTHER -> Support(e[2]) \cup Support(e[3])

\* visit_mut with `if let ScalarExpr::Column(c) = e { *c = f[c] }`.
RECURSIVE MapColumns(_, _)
MapColumns(e, f) ==
    CASE e[1] = "col" -> Col(f[e[2]])
      [] e[1] = "lit" -> e
      [] e[1] = "inv" -> Inv(MapColumns(e[2], f))
      [] OTHER -> Eq(MapColumns(e[2], f), MapColumns(e[3], f))

\* ScalarExpr::eval on the datums of a row: a datum, or "error" for Err(_).
RECURSIVE Eval(_, _)
Eval(e, datums) ==
    CASE e[1] = "col" -> datums[e[2] + 1]
      [] e[1] = "lit" -> e[2]
      [] e[1] = "inv" ->
            LET a == Eval(e[2], datums) IN
            IF a = "error" \/ a = "0" THEN "error"
            ELSE IF a = Null THEN Null ELSE a
      [] OTHER ->
            LET a == Eval(e[2], datums)
                b == Eval(e[3], datums) IN
            IF a = "error" \/ b = "error" THEN "error"
            ELSE IF a = Null \/ b = Null THEN Null
            ELSE IF a = b THEN "true" ELSE "false"

\* The derived Ord of ScalarExpr: variants in declaration order, then fields.
VariantRank(e) ==
    CASE e[1] = "col" -> 0 [] e[1] = "lit" -> 1 [] e[1] = "inv" -> 2 [] OTHER -> 3

DatumRank(d) ==
    CASE d = Null -> 0 [] d = "false" -> 1 [] d = "true" -> 2 [] d = "0" -> 3 [] OTHER -> 4

RECURSIVE ExprLess(_, _)
ExprLess(a, b) ==
    IF VariantRank(a) # VariantRank(b) THEN VariantRank(a) < VariantRank(b)
    ELSE CASE a[1] = "col" -> a[2] < b[2]
           [] a[1] = "lit" -> DatumRank(a[2]) < DatumRank(b[2])
           [] a[1] = "inv" -> ExprLess(a[2], b[2])
           [] OTHER -> \/ ExprLess(a[2], b[2])
                       \/ a[2] = b[2] /\ ExprLess(a[3], b[3])

-----------------------------------------------------------------------------
(* The input relations (what Context::collection and the catalog provide). *)

\* The number of columns of each relation the plans join.
ArityOf(rel) == IF rel = "T" THEN 1 ELSE 2

-----------------------------------------------------------------------------
(* JoinInputMapper (crate expr): local and global column indices.          *)

RECURSIVE ArityBefore(_, _)
ArityBefore(inputs, r) ==
    IF r = 0 THEN 0 ELSE ArityBefore(inputs, r - 1) + ArityOf(inputs[r])

TotalArity(inputs) == ArityBefore(inputs, Len(inputs))

\* JoinInputMapper::global_columns(r): the global columns of input r, in order.
GlobalColumns(inputs, r) ==
    [i \in 1..ArityOf(inputs[r + 1]) |-> ArityBefore(inputs, r) + i - 1]

\* JoinInputMapper::map_expr_to_global(e, r): local columns of input r to global ones.
MapExprToGlobal(e, inputs, r) ==
    MapColumns(e, [c \in 0..(ArityOf(inputs[r + 1]) - 1) |-> c + ArityBefore(inputs, r)])

\* The input a global column belongs to.
InputOfColumn(inputs, c) ==
    CHOOSE r \in 0..(Len(inputs) - 1) : c \in Range(GlobalColumns(inputs, r))

\* JoinInputMapper::lookup_inputs(e): the inputs an expression refers to.
LookupInputs(inputs, e) == {InputOfColumn(inputs, c) : c \in Support(e)}

NoExpr == <<"none">>

\* JoinInputMapper::find_bound_expr: in the first class that contains expr, the
\* first expression all of whose inputs are bound; NoExpr for None.
FindBoundExpr(inputs, expr, bound, eqs) ==
    LET holding == {i \in DOMAIN eqs : Contains(eqs[i], expr)} IN
    IF holding = {} THEN NoExpr
    ELSE LET class == eqs[CHOOSE i \in holding : \A j \in holding : i <= j]
             ok == {k \in DOMAIN class : LookupInputs(inputs, class[k]) \subseteq Range(bound)}
         IN  IF ok = {} THEN NoExpr
             ELSE class[CHOOSE k \in ok : \A j \in ok : k <= j]

-----------------------------------------------------------------------------
(* The private copy of the equivalences (lines 76-80).                     *)

\* Vec::sort, by insertion under the derived order of ScalarExpr.
RECURSIVE SortExprs(_)
SortExprs(s) ==
    IF s = <<>> THEN <<>>
    ELSE LET rest == SortExprs(Tail(s))
             x == Head(s)
             before == SelectSeq(rest, LAMBDA y : ExprLess(y, x))
             after == SelectSeq(rest, LAMBDA y : ~ExprLess(y, x))
         IN  before \o <<x>> \o after

\* Vec::dedup: consecutive equal elements collapse to the first.
RECURSIVE Dedup(_)
Dedup(s) ==
    IF Len(s) <= 1 THEN s
    ELSE IF s[1] = s[2] THEN Dedup(Tail(s))
         ELSE <<s[1]>> \o Dedup(Tail(s))

\* The clone hoisted out of the loop: later roots go on with what the
\* previous root left.
CloneEquivalencesOnce(planEqs, leftover) ==
    IF relation = 0 THEN [i \in DOMAIN planEqs |-> Dedup(SortExprs(planEqs[i]))]
    ELSE leftover

\* equivalences.clone() followed by sort() and dedup() of every class; what
\* the previous iteration left of its copy is dropped.
CloneEquivalences(planEqs, leftover) ==
    [i \in DOMAIN planEqs |-> Dedup(SortExprs(planEqs[i]))]

\* predicates.to_vec()
ClonePredicates(planPreds, leftover) == planPreds

-----------------------------------------------------------------------------
(* build_filter, the construction of the stage (lines 342-412).            *)

\* p.support().into_iter().all(|c| source_columns.contains(&c))
Supported(e, sc) == Support(e) \subseteq Range(sc)

\* The 1-based index of the first supported expression of a class, 0 for None.
FirstSupported(class, sc) ==
    LET ok == {k \in DOMAIN class : Supported(class[k], sc)} IN
    IF ok = {} THEN 0 ELSE CHOOSE k \in ok : \A j \in ok : k <= j

\* The first supported expression is not pushed after the others.
ShouldEquateWithoutFirst(class, sc) ==
    LET pos == FirstSupported(class, sc) IN
    IF pos = 0 THEN <<>>
    ELSE SelectSeq(SubSeq(class, pos + 1, Len(class)), LAMBDA e : Supported(e, sc))

\* No class is ever ready.
ShouldEquateNever(class, sc) == <<>>

\* should_equate of one class: the supported expressions after the first one,
\* then the first one; empty when fewer than two are supported.
ShouldEquate(class, sc) ==
    LET pos == FirstSupported(class, sc) IN
    IF pos = 0 THEN <<>>
    ELSE LET others == SelectSeq(SubSeq(class, pos + 1, Len(class)),
                                 LAMBDA e : Supported(e, sc))
         IN  IF others = <<>> THEN <<>> ELSE Append(others, class[pos])

\* A loop that starts at the first supported expression instead of after it.
ClassAfterFilterAll(class, sc) == SelectSeq(class, LAMBDA e : ~Supported(e, sc))

\* The class after the loop: every supported expression after the first removed.
ClassAfterFilter(class, sc) ==
    LET pos == FirstSupported(class, sc) IN
    IF pos = 0 THEN class
    ELSE SubSeq(class, 1, pos)
         \o SelectSeq(SubSeq(class, pos + 1, Len(class)), LAMBDA e : ~Supported(e, sc))

\* The column references left in global coordinates.
RewriteColumnsNot(e, sc) == e

\* Column references rewritten to their locations under source_columns.
RewriteColumns(e, sc) == MapColumns(e, [c \in Range(sc) |-> Position(sc, c)])

\* A retain that extracts the ready predicates but keeps them all.
ResidualPredicatesKept(preds, sc) == preds

\* predicates.retain(..): the predicates that are not fully supported stay.
ResidualPredicates(preds, sc) == SelectSeq(preds, LAMBDA p : ~Supported(p, sc))

\* build_filter: the stage it adds (if any) and what it leaves in the
\* caller's predicates and equivalences.
BuildFilter(stream, sc, preds, eqs) ==
    LET ready_to_go == SelectSeq(preds, LAMBDA p : Supported(p, sc))
        ready_equivalences ==
            SelectSeq([i \in DOMAIN eqs |-> ShouldEquate(eqs[i], sc)], LAMBDA t : t # <<>>)
        rest == SelectSeq([i \in DOMAIN eqs |-> ClassAfterFilter(eqs[i], sc)],
                          LAMBDA c : Len(c) > 1)
        stage == [kind |-> "filter",
                  ready_to_go |-> [i \in DOMAIN ready_to_go |->
                                      RewriteColumns(ready_to_go[i], sc)],
                  ready_equivalences |-> [i \in DOMAIN ready_equivalences |->
                      [j \in DOMAIN ready_equivalences[i] |->
                          RewriteColumns(ready_equivalences[i][j], sc)]],
                  source_columns |-> sc]
        none == ready_to_go = <<>> /\ ready_equivalences = <<>>
    IN  [stream |-> IF none THEN stream ELSE Append(stream, stage),
         errs |-> ~none,
         predicates |-> ResidualPredicates(preds, sc),
         equivalences |-> rest]

-----------------------------------------------------------------------------
(* The plans and contexts the model renders.                               *)

\* The longest arrangement key the plans use.
MaxKeyLen == 2

\* The joins: inputs, equivalences and predicates over global columns.
\* R and S have two columns, T has one.
Shapes ==
    { [inputs |-> <<"R">>,
       equivalences |-> << <<Col(0), Col(1)>> >>,
       predicates |-> <<Eq(Col(0), Lit("1"))>>],
      [inputs |-> <<"T">>,
       equivalences |-> << <<Col(0), Col(0)>> >>,
       predicates |-> <<>>],
      [inputs |-> <<"S">>,
       equivalences |-> << <<Col(0), Inv(Col(1))>> >>,
       predicates |-> <<Eq(Col(1), Lit("1"))>>],
      [inputs |-> <<"R", "S">>,
       equivalences |-> << <<Col(1), Col(2)>> >>,
       predicates |-> <<Eq(Col(0), Lit("1")), Eq(Col(0), Col(3))>>],
      [inputs |-> <<"R", "S">>,
       equivalences |-> << <<Col(2), Col(1), Col(2)>>, <<Col(3), Col(0)>> >>,
       predicates |-> <<>>],
      [inputs |-> <<"R", "S">>,
       equivalences |-> << <<Inv(Col(1)), Col(2)>> >>,
       predicates |-> <<Eq(Inv(Col(3)), Lit("1"))>>],
      [inputs |-> <<"R", "S">>,
       equivalences |-> << <<Lit("1"), Col(2), Col(1)>> >>,
       predicates |-> <<>>],
      [inputs |-> <<"R", "S">>,
       equivalences |-> << <<Col(0), Col(1), Col(2)>> >>,
       predicates |-> <<>>],
      [inputs |-> <<"R", "R">>,
       equivalences |-> << <<Col(1), Col(2)>> >>,
       predicates |-> <<Eq(Col(3), Lit("1"))>>],
      [inputs |-> <<"R", "S", "T">>,
       equivalences |-> << <<Col(1), Col(2)>>, <<Col(3), Col(4)>> >>,
       predicates |-> <<Eq(Col(0), Lit("1")), Eq(Col(0), Col(4))>>],
      [inputs |-> <<"R", "S", "T">>,
       equivalences |-> << <<Col(0), Col(2), Col(4)>> >>,
       predicates |-> <<>>] }

\* The expressions over the columns of input o alone that the equivalences
\* hold, in the local columns of o: what an arrangement of o is keyed by.
LocalExprs(shape, o) ==
    {MapColumns(e, [c \in Range(GlobalColumns(shape.inputs, o)) |->
                       c - ArityBefore(shape.inputs, o)]) :
        e \in {x \in UNION {Range(shape.equivalences[j]) : j \in DOMAIN shape.equivalences} :
                  LookupInputs(shape.inputs, x) = {o}}}

\* The keys of the arrangements of input o: increasing sequences of them.
KeyChoices(shape, o) ==
    {k \in UNION {[1..n -> LocalExprs(shape, o)] : n \in 1..MaxKeyLen} :
        \A i \in 1..(Len(k) - 1) : ExprLess(k[i], k[i + 1])}

\* The entries (other, next_key) an order of root r may hold.
Entries(shape, r) ==
    UNION {{o} \X KeyChoices(shape, o) : o \in (0..(Len(shape.inputs) - 1)) \ {r}}

\* The orders of root r: every sequence of at most N - 1 entries, so also the
\* ones that skip an input, visit one twice or use a key that is not bound.
OrderChoices(shape, r) ==
    UNION {[1..n -> Entries(shape, r)] : n \in 0..(Len(shape.inputs) - 1)}

\* One order per root.
OrdersOf(shape) ==
    CASE Len(shape.inputs) = 1 -> {<<a>> : a \in OrderChoices(shape, 0)}
      [] Len(shape.inputs) = 2 -> OrderChoices(shape, 0) \X OrderChoices(shape, 1)
      [] OTHER -> OrderChoices(shape, 0) \X OrderChoices(shape, 1) \X OrderChoices(shape, 2)

DeltaPlans ==
    UNION {{[inputs |-> sh.inputs, equivalences |-> sh.equivalences,
             predicates |-> sh.predicates, orders |-> os,
             implementation |-> "DeltaQuery"] : os \in OrdersOf(sh)} : sh \in Shapes}

\* The same joins planned as something else than a delta query.
OtherPlans ==
    {[inputs |-> sh.inputs, equivalences |-> sh.equivalences,
      predicates |-> sh.predicates, orders |-> <<>>,
      implementation |-> "Differential"] : sh \in Shapes}

\* The contexts: trace names the relations whose arrangements are imported
\* traces, missing the (relation, key) arrangements that do not exist.
Contexts ==
    { [trace |-> {}, missing |-> {}],
      [trace |-> {"S"}, missing |-> {}],
      [trace |-> {}, missing |-> {<<"S", <<Col(0)>>>>}] }

\* The context of the runs on data: R and T are local, S is a trace.
DataContext == [trace |-> {"S"}, missing |-> {}]

\* A context that hands out an arrangement whether or not one exists.
ArrangementAssumed(c, rel, key) == IF rel \in c.trace THEN "Trace" ELSE "Local"

\* Context::arrangement(relation, key): the flavor, "None" when absent.
Arrangement(c, rel, key) ==
    IF <<rel, key>> \in c.missing THEN "None"
    ELSE IF rel \in c.trace THEN "Trace" ELSE "Local"

-----------------------------------------------------------------------------
(* render_delta_join (lines 28-268).                                       *)

N == Len(plan.inputs)

ErrStream(kind, rel, key) == [kind |-> kind, rel |-> rel, key |-> key]

Init ==
    /\ plan \in DeltaPlans \cup OtherPlans
    /\ ctx \in Contexts
    /\ pc = "start"
    /\ panic = ""
    /\ rendered = {}
    /\ relation = 0
    /\ step = 0
    /\ equivalences = <<>>
    /\ predicates = <<>>
    /\ source_columns = <<>>
    /\ bound_inputs = <<>>
    /\ update_stream = <<>>
    /\ started = [predicates |-> <<>>, equivalences |-> <<>>]
    /\ region_errs = <<>>
    /\ inner_errs = <<>>
    /\ scope_errs = <<>>
    /\ local_err_dedup = {}
    /\ trace_err_dedup = {}
    /\ delta_queries = <<>>
    /\ updates = {}

Abort(message) ==
    /\ pc' = "panic"
    /\ panic' = message
    /\ UNCHANGED <<rendered, relation, step, equivalences, predicates,
                   source_columns, bound_inputs, update_stream, started,
                   region_errs, inner_errs, scope_errs, local_err_dedup,
                   trace_err_dedup, delta_queries>>

\* Lines 39-48 and 265-267: the match on the join implementation, and
\* ensure_rendered for every input.
Enter ==
    /\ pc = "start"
    /\ IF plan.implementation = "DeltaQuery"
       THEN /\ rendered' = Range(plan.inputs)
            /\ pc' = "root"
            /\ UNCHANGED <<panic, relation, step, equivalences, predicates,
                           source_columns, bound_inputs, update_stream, started,
                           region_errs, inner_errs, scope_errs, local_err_dedup,
                           trace_err_dedup, delta_queries>>
       ELSE Abort("delta_join invoke on non-delta join")
    /\ UNCHANGED <<plan, ctx, updates>>

\* Lines 72-117: the head of one iteration of `for relation in 0..inputs.len()`:
\* the private copies, the input's update stream and the first filter.
BeginRoot ==
    /\ pc = "root"
    /\ relation < N
    /\ LET eqs == CloneEquivalences(plan.equivalences, equivalences)
           preds == ClonePredicates(plan.predicates, predicates)
           sc == GlobalColumns(plan.inputs, relation)
           f == BuildFilter(<<>>, sc, preds, eqs)
       IN  /\ scope_errs' = Append(scope_errs,
                                   ErrStream("collection", plan.inputs[relation + 1], <<>>))
           /\ source_columns' = sc
           /\ started' = [predicates |-> preds, equivalences |-> eqs]
           /\ update_stream' = f.stream
           /\ predicates' = f.predicates
           /\ equivalences' = f.equivalences
           /\ region_errs' = IF f.errs THEN <<ErrStream("filter", relation, 0)>> ELSE <<>>
    /\ bound_inputs' = <<relation>>
    /\ step' = 0
    /\ pc' = "order"
    /\ UNCHANGED <<plan, ctx, updates, panic, rendered, relation, inner_errs,
                   local_err_dedup, trace_err_dedup, delta_queries>>

\* Every arrangement entered the same way.
FlavorAlwaysAlt(arr, other, root) == "alt"

\* The peer compared with the first input instead of the root.
FlavorFromFirst(arr, other, root) == IF other > 0 THEN "alt" ELSE "neu"

\* The comparison left out of the arm of the trace arrangements.
FlavorTraceNeu(arr, other, root) ==
    IF arr = "Local"
    THEN IF other > root THEN "alt" ELSE "neu"
    ELSE "neu"

\* Lines 166-213: the AltNeu refinement a peer arrangement enters with, in
\* the arm of ArrangementFlavor::Local and in that of ArrangementFlavor::Trace.
Flavor(arr, other, root) ==
    IF arr = "Local"
    THEN IF other > root THEN "alt" ELSE "neu"
    ELSE IF other > root THEN "alt" ELSE "neu"

\* A registry that looks at the relation only, whatever the key.
FirstProbeByRelation(dedup, rel, key) == \A a \in dedup : a[1] # rel

\* A registry that forgets: every probe counts as the first.
FirstProbeForgetful(dedup, rel, key) == TRUE

\* HashSet::insert on the dedup set of the arrangement's flavor: whether the
\* arrangement's error stream is pushed.
FirstProbe(dedup, rel, key) == <<rel, key>> \notin dedup

\* The classes of two members go too once a key has left.
RemoveKeysPairsToo(eqs, rebased) ==
    SelectSeq([i \in DOMAIN eqs |-> SelectSeq(eqs[i], LAMBDA e : ~Contains(rebased, e))],
              LAMBDA c : Len(c) > 2)

\* The lookup takes the whole class of a key for enforced.
RemoveKeysWholeClass(eqs, rebased) ==
    SelectSeq(eqs, LAMBDA c : \A i \in DOMAIN rebased : ~Contains(c, rebased[i]))

\* Lines 146-149: the key expressions leave every class, short classes go.
RemoveKeys(eqs, rebased) ==
    SelectSeq([i \in DOMAIN eqs |-> SelectSeq(eqs[i], LAMBDA e : ~Contains(rebased, e))],
              LAMBDA c : Len(c) > 1)

\* Lines 121-234: one iteration of `for (other, next_key) in order.iter()`.
Lookup ==
    /\ pc = "order"
    /\ step < Len(plan.orders[relation + 1])
    /\ LET other == plan.orders[relation + 1][step + 1][1]
           next_key == plan.orders[relation + 1][step + 1][2]
           rel == plan.inputs[other + 1]
           next_key_rebased ==
               [i \in DOMAIN next_key |-> MapExprToGlobal(next_key[i], plan.inputs, other)]
           bound_exprs ==
               [i \in DOMAIN next_key |->
                   FindBoundExpr(plan.inputs, next_key_rebased[i], bound_inputs, equivalences)]
           arr == Arrangement(ctx, rel, next_key)
       IN  IF \E i \in DOMAIN bound_exprs : bound_exprs[i] = NoExpr
           THEN Abort("Expression in join plan is not bound at time of use")
           ELSE IF \E i \in DOMAIN bound_exprs : ~Supported(bound_exprs[i], source_columns)
           THEN Abort("Did not find bound column in source_columns")
           ELSE IF arr = "None"
           THEN Abort("Arrangement alarmingly absent!")
           ELSE
             LET prev_key == [i \in DOMAIN bound_exprs |->
                                 RewriteColumns(bound_exprs[i], source_columns)]
                 eqs == RemoveKeys(equivalences, next_key_rebased)
                 dedup == IF arr = "Local" THEN local_err_dedup ELSE trace_err_dedup
                 stage == [kind |-> "lookup",
                           other |-> other,
                           rel |-> rel,
                           next_key |-> next_key,
                           prev_key |-> prev_key,
                           flavor |-> Flavor(arr, other, relation),
                           arrangement |-> arr,
                           source_columns |-> source_columns,
                           bound_before |-> bound_inputs,
                           equivalences_before |-> equivalences]
                 sc == source_columns \o GlobalColumns(plan.inputs, other)
                 f == BuildFilter(Append(update_stream, stage), sc, predicates, eqs)
             IN  /\ scope_errs' = IF FirstProbe(dedup, rel, next_key)
                                  THEN Append(scope_errs, ErrStream("arrangement", rel, next_key))
                                  ELSE scope_errs
                 /\ local_err_dedup' = IF arr = "Local"
                                       THEN local_err_dedup \cup {<<rel, next_key>>}
                                       ELSE local_err_dedup
                 /\ trace_err_dedup' = IF arr = "Trace"
                                       THEN trace_err_dedup \cup {<<rel, next_key>>}
                                       ELSE trace_err_dedup
                 /\ update_stream' = f.stream
                 /\ region_errs' =
                        Append(region_errs, ErrStream("lookup", relation, step))
                        \o (IF f.errs THEN <<ErrStream("filter", relation, step + 1)>>
                            ELSE <<>>)
                 /\ source_columns' = sc
                 /\ predicates' = f.predicates
                 /\ equivalences' = f.equivalences
                 /\ bound_inputs' = Append(bound_inputs, other)
                 /\ step' = step + 1
                 /\ UNCHANGED <<pc, panic, rendered, relation, started, inner_errs,
                                delta_queries>>
    /\ UNCHANGED <<plan, ctx, updates>>

\* The permutation taken in the wrong direction: from positions to columns.
PermutationInverted(sc) == [c \in 1..Len(sc) |-> sc[c]]

\* Lines 238-240: the permutation back to the common order; position c
\* (0-based) holds the location of column c in source_columns.
Permutation(sc) == [c \in 1..Len(sc) |-> Position(sc, c - 1)]

\* Lines 241-246: row_packer.pack(permutation.iter().map(|c| datums[*c])).
Permute(datums, permutation) ==
    [c \in DOMAIN permutation |-> datums[permutation[c] + 1]]

\* Lines 236-252: the tail of the iteration: the permutation, the region's
\* errors leave, the delta stream is pushed.
FinishRoot ==
    /\ pc = "order"
    /\ step = Len(plan.orders[relation + 1])
    /\ IF \E c \in 0..(Len(source_columns) - 1) : ~Contains(source_columns, c)
       THEN Abort("Did not find required column in output")
       ELSE /\ delta_queries' = Append(delta_queries,
                    [relation |-> relation,
                     stages |-> update_stream,
                     permutation |-> Permutation(source_columns),
                     source_columns |-> source_columns,
                     started |-> started,
                     predicates |-> predicates,
                     equivalences |-> equivalences])
            /\ inner_errs' = Append(inner_errs, region_errs)
            /\ relation' = relation + 1
            /\ pc' = IF relation + 1 < N THEN "root" ELSE "leave"
            /\ update_stream' = <<>>
            /\ region_errs' = <<>>
            /\ UNCHANGED <<panic, rendered, step, equivalences, predicates,
                           source_columns, bound_inputs, started, scope_errs,
                           local_err_dedup, trace_err_dedup>>
    /\ UNCHANGED <<plan, ctx, updates>>

\* Lines 255-264: the inner scope's errors leave and the results are returned.
Leave ==
    /\ pc = "leave"
    /\ scope_errs' = Append(scope_errs, ErrStream("inner", "", <<>>))
    /\ pc' = "done"
    /\ UNCHANGED <<plan, ctx, updates, panic, rendered, relation, step,
                   equivalences, predicates, source_columns, bound_inputs,
                   update_stream, started, region_errs, inner_errs,
                   local_err_dedup, trace_err_dedup, delta_queries>>

Render == Enter \/ BeginRoot \/ Lookup \/ FinishRoot \/ Leave

Spec == Init /\ [][Render]_vars

-----------------------------------------------------------------------------
(* The inputs' updates.                                                     *)

\* The latest time of an update, and how many updates the inputs receive
\* beyond one for each input.
MaxTime == 1
MaxExtraUpdates == 0

Times == 0..MaxTime

\* The rows the relations may hold: with equal, different and NULL values in
\* the join columns, and with the value on which Inv fails.
RowsOf(rel) ==
    CASE rel = "R" -> {<<"1", "1">>, <<"1", Null>>, <<"0", "0">>}
      [] rel = "S" -> {<<"1", "1">>, <<Null, "1">>, <<"1", "0">>}
      [] OTHER -> {<<"1">>, <<Null>>}

\* The updates (row, time, diff) relation rel has received.
UpdatesOf(rel) == {u \in updates : u.rel = rel}

\* The same when the inputs have received the updates U.
UpdatesIn(U, rel) == {u \in U : u.rel = rel}

\* The multiplicity of row in the collection s of updates at time t.
Accumulated(s, row, t) ==
    LET of == {u \in s : u.row = row /\ u.time <= t} IN
    SumOver(of, [u \in of |-> u.diff])

\* An input receives one more update, at any time and for any row; a row is
\* never retracted more often than it has been added.
Update ==
    /\ pc = "done"
    /\ Cardinality(updates) < N + MaxExtraUpdates
    /\ \E rel \in Range(plan.inputs), t \in Times, d \in {1, 0 - 1} :
          \E row \in RowsOf(rel) :
              LET u == [rel |-> rel, row |-> row, time |-> t, diff |-> d] IN
              /\ u \notin updates
              /\ \A t2 \in Times : Accumulated(UpdatesOf(rel) \cup {u}, row, t2) >= 0
              /\ updates' = updates \cup {u}
    /\ UNCHANGED <<plan, ctx, pc, panic, rendered, relation, step, equivalences,
                   predicates, source_columns, bound_inputs, update_stream,
                   started, region_errs, inner_errs, scope_errs,
                   local_err_dedup, trace_err_dedup, delta_queries>>

-----------------------------------------------------------------------------
(* AltNeu timestamps (crate dogsdogsdogs).                                  *)

Alt(t) == [time |-> t, neu |-> 0]
Neu(t) == [time |-> t, neu |-> 1]

\* PartialOrder::less_equal of AltNeu: alt(t) < neu(t) < alt(t + 1).
AltNeuLessEqual(a, b) ==
    IF a.time = b.time THEN a.neu <= b.neu ELSE a.time <= b.time

\* enter_at(inner, |_, _, t| AltNeu::alt(t) / AltNeu::neu(t), ..): the inner
\* time at which an update of the arrangement at time t is seen.
EnterAt(flavor, t) == IF flavor = "alt" THEN Alt(t) ELSE Neu(t)

\* update_stream.enter(inner): Refines::to_inner puts the updates at alt.
EnterInner(t) == Alt(t)

\* Whether a lookup on an arrangement entered with flavor counts, for an
\* update of the stream at time t, an update of the arrangement at time t2.
Observes(flavor, t2, t) == AltNeuLessEqual(EnterAt(flavor, t2), EnterInner(t))

-----------------------------------------------------------------------------
(* build_lookup (lines 280-325) and the filter of build_filter (413-432),   *)
(* run on collections of updates [row, time, diff].                         *)

\* The datums a key evaluates to on a row.
KeyOf(key, datums) == [i \in DOMAIN key |-> Eval(key[i], datums)]

\* Row::try_pack(prev_key.iter().map(|e| e.eval(..)))?: whether some
\* expression of the key fails.
KeyFails(key, datums) == \E i \in DOMAIN key : Eval(key[i], datums) = "error"

\* The updates of the arrangement of rel by key: those of rel whose key
\* evaluates (the others are in the arrangement's error collection).
Arranged(rel, key) == {u \in UpdatesOf(rel) : ~KeyFails(key, u.row)}

\* The same when the inputs have received the updates U.
ArrangedIn(U, rel, key) == {u \in UpdatesIn(U, rel) : ~KeyFails(key, u.row)}

\* lookup_map: for an update of the stream at time t and a value v stored
\* under its key, the accumulated diff of v at the times the lookup observes.
MatchCount(arranged, flavor, v, t) ==
    LET of == {u \in arranged : u.row = v /\ Observes(flavor, u.time, t)}
    IN  SumOver(of, [u \in of |-> u.diff])

\* An output selector that forgets the diff of the stream's update.
ProposalsUnsigned(st, arranged, w) ==
    LET key == KeyOf(st.prev_key, w.row)
        counted == {[row |-> w.row \o v, time |-> w.time,
                     diff |-> MatchCount(arranged, st.flavor, v, w.time)] :
                        v \in {u.row : u \in {x \in arranged :
                                                 KeyOf(st.next_key, x.row) = key}}}
    IN  {o \in counted : o.diff # 0}

\* A key with a NULL in it matches nothing, as under the SQL equality.
ProposalsNullUnequal(st, arranged, w) ==
    LET key == KeyOf(st.prev_key, w.row)
        counted == {[row |-> w.row \o v, time |-> w.time,
                     diff |-> w.diff * MatchCount(arranged, st.flavor, v, w.time)] :
                        v \in {u.row : u \in {x \in arranged :
                                                 /\ KeyOf(st.next_key, x.row) = key
                                                 /\ Null \notin Range(key)}}}
    IN  {o \in counted : o.diff # 0}

\* An output selector that chains the rows the other way round.
ProposalsPeerFirst(st, arranged, w) ==
    LET key == KeyOf(st.prev_key, w.row)
        counted == {[row |-> v \o w.row, time |-> w.time,
                     diff |-> w.diff * MatchCount(arranged, st.flavor, v, w.time)] :
                        v \in {u.row : u \in {x \in arranged :
                                                 KeyOf(st.next_key, x.row) = key}}}
    IN  {o \in counted : o.diff # 0}

\* lookup_map on one update w of the stream: every value under the key of w,
\* with the product of the diffs; values that accumulate to zero are skipped.
Proposals(st, arranged, w) ==
    LET key == KeyOf(st.prev_key, w.row)
        counted == {[row |-> w.row \o v, time |-> w.time,
                     diff |-> w.diff * MatchCount(arranged, st.flavor, v, w.time)] :
                        v \in {u.row : u \in {x \in arranged :
                                                 KeyOf(st.next_key, x.row) = key}}}
    IN  {o \in counted : o.diff # 0}

\* build_lookup on the stream W against the arrangement arranged:
\* map_fallible computes the key, lookup_map joins.
BuildLookupOn(arranged, st, W) ==
    [ok |-> UNION {Proposals(st, arranged, w) :
                      w \in {x \in W : ~KeyFails(st.prev_key, x.row)}},
     err |-> {w \in W : KeyFails(st.prev_key, w.row)}]

\* build_lookup against the arrangement of the peer as the inputs stand.
BuildLookupRun(st, W) == BuildLookupOn(Arranged(st.rel, st.next_key), st, W)

\* Lines 416-420: the predicates in order, stopping at the first that fails
\* to evaluate or is not TRUE.
RECURSIVE PredicatesOutcome(_, _)
PredicatesOutcome(ps, datums) ==
    IF ps = <<>> THEN "true"
    ELSE LET v == Eval(Head(ps), datums) IN
         IF v = "error" THEN "error"
         ELSE IF v # "true" THEN "false"
         ELSE PredicatesOutcome(Tail(ps), datums)

\* The comparison of BinaryFunc::Eq instead: NULL equals nothing.
RECURSIVE MembersOutcomeSql(_, _, _)
MembersOutcomeSql(exprs, val, datums) ==
    IF exprs = <<>> THEN "true"
    ELSE LET v == Eval(Head(exprs), datums) IN
         IF v = "error" THEN "error"
         ELSE IF v # val \/ v = Null THEN "false"
         ELSE MembersOutcomeSql(Tail(exprs), val, datums)

\* Lines 424-428: the expressions after the first against val (Datum::ne).
RECURSIVE MembersOutcome(_, _, _)
MembersOutcome(exprs, val, datums) ==
    IF exprs = <<>> THEN "true"
    ELSE LET v == Eval(Head(exprs), datums) IN
         IF v = "error" THEN "error"
         ELSE IF v # val THEN "false"
         ELSE MembersOutcome(Tail(exprs), val, datums)

\* Lines 421-429: the equivalences in order.
RECURSIVE EquivalencesOutcome(_, _)
EquivalencesOutcome(es, datums) ==
    IF es = <<>> THEN "true"
    ELSE LET val == Eval(Head(es)[1], datums) IN
         IF val = "error" THEN "error"
         ELSE LET rest == MembersOutcome(Tail(Head(es)), val, datums) IN
              IF rest # "true" THEN rest
              ELSE EquivalencesOutcome(Tail(es), datums)

\* The closure with the two loops exchanged: equivalences, then predicates.
FilterOutcomeEquivalencesFirst(st, datums) ==
    LET es == EquivalencesOutcome(st.ready_equivalences, datums) IN
    IF es # "true" THEN es ELSE PredicatesOutcome(st.ready_to_go, datums)

\* The closure of filter_fallible: Ok(true), Ok(false) or Err(_).
FilterOutcome(st, datums) ==
    LET ps == PredicatesOutcome(st.ready_to_go, datums) IN
    IF ps # "true" THEN ps ELSE EquivalencesOutcome(st.ready_equivalences, datums)

\* A filter that gives up on the first error: nothing passes any more.
FilterFallibleStrict(st, W) ==
    [ok |-> IF \E w \in W : FilterOutcome(st, w.row) = "error" THEN {}
            ELSE {w \in W : FilterOutcome(st, w.row) = "true"},
     err |-> {w \in W : FilterOutcome(st, w.row) = "error"}]

\* filter_fallible: the rows of Ok(true) stay, those of Err(_) become errors.
FilterFallible(st, W) ==
    [ok |-> {w \in W : FilterOutcome(st, w.row) = "true"},
     err |-> {w \in W : FilterOutcome(st, w.row) = "error"}]

\* One stage of a delta stream on the collection W.
RunStage(st, W) ==
    IF st.kind = "filter" THEN FilterFallible(st, W) ELSE BuildLookupRun(st, W)

\* The collection after the first k stages of a stream started from W.
RECURSIVE After(_, _, _)
After(stages, k, W) ==
    IF k = 0 THEN W ELSE RunStage(stages[k], After(stages, k - 1, W)).ok

\* The update stream of input r as it enters the region.
RootStream(r) ==
    {[row |-> u.row, time |-> u.time, diff |-> u.diff] : u \in UpdatesOf(plan.inputs[r + 1])}

\* The output of a finished delta stream: its last collection, permuted.
DeltaOutput(dq) ==
    {[row |-> Permute(w.row, dq.permutation), time |-> w.time, diff |-> w.diff] :
        w \in After(dq.stages, Len(dq.stages), RootStream(dq.relation))}

\* The outputs of the finished delta streams.
DeltaOutputs == [i \in DOMAIN delta_queries |-> DeltaOutput(delta_queries[i])]

\* The same graph run on other updates U of the inputs: a stage, the first k
\* stages of a stream, and the outputs of the finished delta streams.
RunStageOn(U, st, W) ==
    IF st.kind = "filter" THEN FilterFallible(st, W)
    ELSE BuildLookupOn(ArrangedIn(U, st.rel, st.next_key), st, W)

RECURSIVE AfterOn(_, _, _, _)
AfterOn(U, stages, k, W) ==
    IF k = 0 THEN W ELSE RunStageOn(U, stages[k], AfterOn(U, stages, k - 1, W)).ok

DeltaOutputsOn(U) ==
    [i \in DOMAIN delta_queries |->
        {[row |-> Permute(w.row, delta_queries[i].permutation),
          time |-> w.time, diff |-> w.diff] :
            w \in AfterOn(U, delta_queries[i].stages, Len(delta_queries[i].stages),
                          {[row |-> u.row, time |-> u.time, diff |-> u.diff] :
                              u \in UpdatesIn(U, plan.inputs[delta_queries[i].relation + 1])})}]

\* concatenate(inner, delta_queries).leave(): the multiplicity of row at t in
\* the outputs outs of the delta streams.
OutputAt(outs, row, t) ==
    SumOver(DOMAIN outs, [i \in DOMAIN outs |-> Accumulated(outs[i], row, t)])

Next == Render \/ Update

\* The distance between the positions of two inputs.
Distance(i, j) == IF i < j THEN j - i ELSE i - j

\* The plans run on data: every order visits every other input once, the
\* nearest first and of two equally near the one of the smaller index.
DataPlans ==
    {p \in DeltaPlans :
        \A r \in DOMAIN p.orders :
            /\ Len(p.orders[r]) = Len(p.inputs) - 1
            /\ {p.orders[r][i][1] : i \in DOMAIN p.orders[r]}
                   = (0..(Len(p.inputs) - 1)) \ {r - 1}
            /\ \A i \in 1..(Len(p.orders[r]) - 1) :
                  LET a == p.orders[r][i][1]
                      b == p.orders[r][i + 1][1]
                  IN  \/ Distance(a, r - 1) < Distance(b, r - 1)
                      \/ Distance(a, r - 1) = Distance(b, r - 1) /\ a < b}

InitData ==
    /\ plan \in DataPlans
    /\ ctx = DataContext
    /\ pc = "start"
    /\ panic = ""
    /\ rendered = {}
    /\ relation = 0
    /\ step = 0
    /\ equivalences = <<>>
    /\ predicates = <<>>
    /\ source_columns = <<>>
    /\ bound_inputs = <<>>
    /\ update_stream = <<>>
    /\ started = [predicates |-> <<>>, equivalences |-> <<>>]
    /\ region_errs = <<>>
    /\ inner_errs = <<>>
    /\ scope_errs = <<>>
    /\ local_err_dedup = {}
    /\ trace_err_dedup = {}
    /\ delta_queries = <<>>
    /\ updates = {}

SpecData == InitData /\ [][Next]_vars

-----------------------------------------------------------------------------
(* What has been built so far.                                             *)

\* The stages of every delta stream, finished or under construction.
AllStages ==
    Flatten([i \in DOMAIN delta_queries |-> delta_queries[i].stages]) \o update_stream

\* How many lookups probe the arrangement of rel by key.
Probes(rel, key) ==
    Cardinality({i \in DOMAIN AllStages :
                    /\ AllStages[i].kind = "lookup"
                    /\ AllStages[i].rel = rel
                    /\ AllStages[i].next_key = key})

\* How often an error stream was pushed on scope_errs.
Pushed(e) == Cardinality({i \in DOMAIN scope_errs : scope_errs[i] = e})

\* The arrangements the orders of the plan name.
PlanArrangements ==
    UNION {{<<plan.inputs[plan.orders[r][i][1] + 1], plan.orders[r][i][2]>> :
               i \in DOMAIN plan.orders[r]} : r \in DOMAIN plan.orders}

\* Whether orders[r] visits every input other than r exactly once.
CompleteOrder(r) ==
    /\ Len(plan.orders[r + 1]) = N - 1
    /\ {plan.orders[r + 1][i][1] : i \in DOMAIN plan.orders[r + 1]} = (0..(N - 1)) \ {r}

-----------------------------------------------------------------------------
(* C4: an arrangement (relation, key) probed k >= 1 times across all the    *)
(* delta streams has its error collection pushed on the combined error      *)
(* output exactly once, and one never probed is not pushed at all.          *)
C4_ErrDedup ==
    \A a \in PlanArrangements :
        Pushed(ErrStream("arrangement", a[1], a[2]))
            = IF Probes(a[1], a[2]) >= 1 THEN 1 ELSE 0

\* A finished rendering in which one arrangement was probed by two lookups.
C4_Witness ==
    /\ pc = "done"
    /\ \E a \in PlanArrangements :
          /\ Probes(a[1], a[2]) >= 2
          /\ Pushed(ErrStream("arrangement", a[1], a[2])) = 1

-----------------------------------------------------------------------------
\* The lookup stages of a stream, in order.
Lookups(stages) == SelectSeq(stages, LAMBDA st : st.kind = "lookup")

\* Whether some expression over the bound inputs shares a class with e.
HasBoundExpr(e, bound, eqs) ==
    \E j \in DOMAIN eqs :
        /\ Contains(eqs[j], e)
        /\ \E k \in DOMAIN eqs[j] : LookupInputs(plan.inputs, eqs[j][k]) \subseteq Range(bound)

\* A lookup that was built although the plan's invariants do not hold for it.
BadLookup(st) ==
    \/ <<st.rel, st.next_key>> \in ctx.missing
    \/ \E k \in DOMAIN st.next_key :
          ~HasBoundExpr(MapExprToGlobal(st.next_key[k], plan.inputs, st.other),
                        st.bound_before, st.equivalences_before)

(* C5: a violated plan invariant aborts rendering instead of producing a    *)
(* graph. A join that is not a delta query panics before any input is       *)
(* rendered or any stream built; no lookup is ever built for an entry whose *)
(* arrangement is absent or whose key has no bound expression in the        *)
(* equivalence classes of that moment; and a rendering that returns has     *)
(* built the lookup of every entry of every order.                          *)
C5_PlanViolationsAbort ==
    /\ (plan.implementation # "DeltaQuery" /\ pc # "start") =>
          /\ pc = "panic"
          /\ rendered = {}
          /\ scope_errs = <<>>
          /\ delta_queries = <<>>
          /\ update_stream = <<>>
    /\ \A i \in DOMAIN AllStages :
          AllStages[i].kind = "lookup" => ~BadLookup(AllStages[i])
    /\ \A i \in DOMAIN delta_queries :
          LET built == Lookups(delta_queries[i].stages)
              order == plan.orders[delta_queries[i].relation + 1]
          IN  /\ Len(built) = Len(order)
              /\ \A j \in DOMAIN order :
                    built[j].other = order[j][1] /\ built[j].next_key = order[j][2]
    /\ pc = "done" => Len(delta_queries) = N

\* Rendering aborted on an absent arrangement after a delta stream was built.
C5_Witness ==
    /\ pc = "panic"
    /\ panic = "Arrangement alarmingly absent!"
    /\ delta_queries # <<>>

(* C6: for a delta stream whose order visits every other input exactly      *)
(* once, the final permutation moves the value at the working-row position  *)
(* of provenance c to position c, for every global column c: a working row  *)
(* that carries at each position its own provenance comes out as            *)
(* 0, 1, ..., n - 1, whatever the join order.                               *)
C6_CanonicalOrder ==
    \A i \in DOMAIN delta_queries :
        CompleteOrder(delta_queries[i].relation) =>
            Permute(delta_queries[i].source_columns, delta_queries[i].permutation)
                = [c \in 1..TotalArity(plan.inputs) |-> c - 1]

\* A finished stream of a three-way join whose working row is a rotation of
\* the canonical order.
C6_Witness ==
    /\ pc = "done"
    /\ \E i \in DOMAIN delta_queries :
          /\ CompleteOrder(delta_queries[i].relation)
          /\ delta_queries[i].permutation # delta_queries[i].source_columns
          /\ delta_queries[i].source_columns # [c \in 1..TotalArity(plan.inputs) |-> c - 1]

\* The filter stages of a stream that apply predicate p.
Appliers(stages, p) ==
    {k \in DOMAIN stages :
        /\ stages[k].kind = "filter"
        /\ Supported(p, stages[k].source_columns)
        /\ Contains(stages[k].ready_to_go, RewriteColumns(p, stages[k].source_columns))}

(* C7: along every delta stream each predicate is applied by exactly one    *)
(* filter stage, the first one at which its columns are all bound: the      *)
(* stage is the root filter or follows a lookup before which the predicate  *)
(* was not supported, and a predicate over the root's columns alone is in   *)
(* the filter that precedes every lookup. A predicate whose columns the     *)
(* stream never binds is applied nowhere.                                   *)
C7_PredicatePushdown ==
    \A i \in DOMAIN delta_queries :
        LET dq == delta_queries[i] IN
        \A j \in DOMAIN plan.predicates :
            LET p == plan.predicates[j]
                at == Appliers(dq.stages, p)
            IN  IF Supported(p, dq.source_columns)
                THEN /\ Cardinality(at) = 1
                     /\ \A k \in at :
                           /\ k > 1 => /\ dq.stages[k - 1].kind = "lookup"
                                       /\ ~Supported(p, dq.stages[k - 1].source_columns)
                           /\ Supported(p, GlobalColumns(plan.inputs, dq.relation)) => k = 1
                ELSE at = {}

\* A finished stream that applies one predicate before its first lookup and
\* another one only after its last.
C7_Witness ==
    /\ pc = "done"
    /\ \E i \in DOMAIN delta_queries :
          LET dq == delta_queries[i] IN
          /\ CompleteOrder(dq.relation)
          /\ Len(Lookups(dq.stages)) = 2
          /\ \E j \in DOMAIN plan.predicates : Appliers(dq.stages, plan.predicates[j]) = {1}
          /\ \E j \in DOMAIN plan.predicates :
                Appliers(dq.stages, plan.predicates[j]) = {Len(dq.stages)}

\* What the root iterations started from: the finished ones and the current one.
Starts ==
    [i \in DOMAIN delta_queries |-> delta_queries[i].started]
    \o (IF pc = "order" THEN <<started>> ELSE <<>>)

(* C10: every root iteration starts from the plan's complete predicate list *)
(* and from all of its equivalence classes, each sorted and de-duplicated,  *)
(* whatever the earlier iterations consumed; the plan still holds the same  *)
(* lists afterwards.                                                        *)
C10_FreshCopies ==
    \A i \in DOMAIN Starts :
        /\ Starts[i].predicates = plan.predicates
        /\ Len(Starts[i].equivalences) = Len(plan.equivalences)
        /\ \A j \in DOMAIN plan.equivalences :
              LET class == Starts[i].equivalences[j] IN
              /\ Range(class) = Range(plan.equivalences[j])
              /\ \A k \in 1..(Len(class) - 1) : ExprLess(class[k], class[k + 1])

\* A second root has started from the full lists although the first root
\* consumed its copies, for a plan whose classes needed sorting and dedup.
C10_Witness ==
    /\ Len(Starts) >= 2
    /\ delta_queries # <<>>
    /\ delta_queries[1].equivalences = <<>>
    /\ delta_queries[1].started.equivalences # plan.equivalences
    /\ plan.equivalences # <<>>

-----------------------------------------------------------------------------
(* The reference join: the nested loop over the inputs' contents.          *)

\* Every concatenation of one row of each input.
RECURSIVE RowCombos(_)
RowCombos(inputs) ==
    IF inputs = <<>> THEN {<<>>}
    ELSE {p[1] \o p[2] : p \in RowsOf(Head(inputs)) \X RowCombos(Tail(inputs))}

\* The columns of input r in a row in the canonical order.
Slice(row, r) ==
    SubSeq(row, ArityBefore(plan.inputs, r) + 1, ArityBefore(plan.inputs, r + 1))

\* Whether a joined row satisfies every predicate and every equivalence
\* (NULL equal to NULL).
Satisfies(row) ==
    /\ \A j \in DOMAIN plan.predicates : Eval(plan.predicates[j], row) = "true"
    /\ \A j \in DOMAIN plan.equivalences :
          \A a, b \in DOMAIN plan.equivalences[j] :
              /\ Eval(plan.equivalences[j][a], row) # "error"
              /\ Eval(plan.equivalences[j][a], row) = Eval(plan.equivalences[j][b], row)

RECURSIVE SlicesProduct(_, _, _)
SlicesProduct(row, r, t) ==
    IF r = N THEN 1
    ELSE Accumulated(UpdatesOf(plan.inputs[r + 1]), Slice(row, r), t)
         * SlicesProduct(row, r + 1, t)

\* The multiplicity of a row in the join of the inputs' contents at time t.
ReferenceAt(row, t) == IF Satisfies(row) THEN SlicesProduct(row, 0, t) ELSE 0

(* C1: once the N delta streams of a valid plan are built, after any        *)
(* updates of the inputs and at every time t, the outputs of the streams    *)
(* accumulated up to t are the join of the inputs' contents at t: every row *)
(* has the multiplicity the nested-loop join gives it, and no other row is  *)
(* emitted.                                                                 *)
C1_SumIsJoin ==
    pc = "done" =>
        \A outs \in {DeltaOutputs} : \A rows \in {RowCombos(plan.inputs)} :
            /\ \A t \in Times : \A row \in rows :
                  OutputAt(outs, row, t) = ReferenceAt(row, t)
            /\ \A i \in DOMAIN outs : \A o \in outs[i] : o.row \in rows

\* Three inputs updated at the same time, and the joined row is there once.
C1_Witness ==
    /\ pc = "done"
    /\ N = 3
    /\ Cardinality(updates) = 3
    /\ \A u \in updates : u.time = 0 /\ u.diff = 1
    /\ \E row \in RowCombos(plan.inputs) : OutputAt(DeltaOutputs, row, 0) = 1

-----------------------------------------------------------------------------
\* The lookup stages of a stream against the input other.
LookupsOn(dq, other) ==
    {dq.stages[k] : k \in {j \in DOMAIN dq.stages :
                              dq.stages[j].kind = "lookup" /\ dq.stages[j].other = other}}

\* How many updates the streams emit for row.
Emissions(outs, row) ==
    SumOver(DOMAIN outs, [i \in DOMAIN outs |-> Cardinality({o \in outs[i] : o.row = row})])

(* C2: in the delta stream rooted at r every lookup against a peer of larger *)
(* index has entered the peer's arrangement at alt and every lookup against  *)
(* a peer of smaller index at neu, whether the arrangement is local or a     *)
(* trace; of the two streams rooted at i < j exactly one observes an update  *)
(* of the other input made at the time of its own update; and when all the  *)
(* inputs are updated at one time, each joined row is emitted by exactly one *)
(* update of one stream.                                                     *)
C2_AltNeuRule ==
    /\ \A i \in DOMAIN delta_queries : \A k \in DOMAIN delta_queries[i].stages :
          LET st == delta_queries[i].stages[k] IN
          st.kind = "lookup" =>
              st.flavor = IF st.other > delta_queries[i].relation THEN "alt" ELSE "neu"
    /\ \A k \in DOMAIN update_stream :
          update_stream[k].kind = "lookup" =>
              update_stream[k].flavor
                  = IF update_stream[k].other > relation THEN "alt" ELSE "neu"
    /\ \A i, j \in DOMAIN delta_queries :
          i < j =>
              \A a \in LookupsOn(delta_queries[i], delta_queries[j].relation) :
                  \A b \in LookupsOn(delta_queries[j], delta_queries[i].relation) :
                      \A t \in Times :
                          Observes(a.flavor, t, t) # Observes(b.flavor, t, t)
    /\ (pc = "done" /\ \A u, v \in updates : u.time = v.time /\ u.diff = 1) =>
          \A outs \in {DeltaOutputs} : \A row \in RowCombos(plan.inputs) :
              Emissions(outs, row)
                  = IF \E u \in updates : ReferenceAt(row, u.time) = 1 THEN 1 ELSE 0

\* Two different inputs, a local arrangement and a trace, updated at the same
\* time with rows that join: the joined row is emitted once.
C2_Witness ==
    /\ pc = "done"
    /\ N = 2
    /\ Cardinality(updates) = 2
    /\ \A u, v \in updates : u.time = v.time /\ u.diff = 1
    /\ \E u, v \in updates : u.rel # v.rel
    /\ \E a \in LookupsOn(delta_queries[1], 1) : a.arrangement = "Trace" /\ a.flavor = "alt"
    /\ \E b \in LookupsOn(delta_queries[2], 0) : b.arrangement = "Local" /\ b.flavor = "neu"
    /\ \E row \in RowCombos(plan.inputs) : Emissions(DeltaOutputs, row) = 1

\* The accumulated diff of the value v of a peer that a lookup of the stream
\* rooted at root is said to reflect for an update at time t: the updates at
\* earlier times, and those at t when the peer's index is smaller.
ReflectedCount(arranged, other, root, v, t) ==
    LET of == {u \in arranged :
                  /\ u.row = v
                  /\ \/ u.time < t
                     \/ u.time = t /\ other < root}
    IN  SumOver(of, [u \in of |-> u.diff])

(* C3: every lookup of the delta stream rooted at r counts, for an update of *)
(* the stream at time t and a value of the peer under the update's key, the  *)
(* peer's updates at times before t, and those at t exactly when the peer's  *)
(* index is smaller than r: a same-time update of a peer of larger index is  *)
(* never reflected.                                                          *)
C3_ReflectsSmallerPeers ==
    pc = "done" =>
        \A i \in DOMAIN delta_queries :
            LET dq == delta_queries[i] IN
            \A k \in DOMAIN dq.stages :
                dq.stages[k].kind = "lookup" =>
                    LET st == dq.stages[k] IN
                    \A arranged \in {Arranged(st.rel, st.next_key)} :
                        \A w \in After(dq.stages, k - 1, RootStream(dq.relation)) :
                            \A u \in arranged :
                                (/\ ~KeyFails(st.prev_key, w.row)
                                 /\ KeyOf(st.next_key, u.row) = KeyOf(st.prev_key, w.row))
                                => MatchCount(arranged, st.flavor, u.row, w.time)
                                      = ReflectedCount(arranged, st.other, dq.relation,
                                                       u.row, w.time)

-----------------------------------------------------------------------------
\* The working rows a stage with the columns sc may meet: the columns of one
\* row of each input.
StageRows(sc) ==
    {[k \in DOMAIN sc |-> full[sc[k] + 1]] : full \in RowCombos(plan.inputs)}

\* Whether every member of the tuple evaluates, and to one value (NULL being
\* a value like any other).
AllSame(exprs, datums) ==
    \A a, b \in DOMAIN exprs :
        /\ Eval(exprs[a], datums) # "error"
        /\ Eval(exprs[a], datums) = Eval(exprs[b], datums)

\* Whether the filter stage st lets a row through.
Keeps(st, datums) ==
    FilterFallible(st, {[row |-> datums, time |-> 0, diff |-> 1]}).ok # {}

(* C8: a filter stage keeps a row exactly when every ready predicate         *)
(* evaluates to TRUE (FALSE, NULL or an error drop it) and, for every ready  *)
(* equivalence tuple, all the members evaluate to one value, NULL counting   *)
(* as equal to NULL.                                                         *)
C8_FilterKeeps ==
    \A i \in DOMAIN AllStages :
        AllStages[i].kind = "filter" =>
            LET st == AllStages[i] IN
            \A datums \in StageRows(st.source_columns) :
                Keeps(st, datums)
                    <=> /\ \A j \in DOMAIN st.ready_to_go :
                              Eval(st.ready_to_go[j], datums) = "true"
                        /\ \A j \in DOMAIN st.ready_equivalences :
                              AllSame(st.ready_equivalences[j], datums)

\* A filter stage keeps a row in which every member of a ready tuple is NULL.
C8_Witness ==
    \E i \in DOMAIN AllStages :
        /\ AllStages[i].kind = "filter"
        /\ \E datums \in StageRows(AllStages[i].source_columns) :
              /\ Keeps(AllStages[i], datums)
              /\ \E j \in DOMAIN AllStages[i].ready_equivalences :
                    \A a \in DOMAIN AllStages[i].ready_equivalences[j] :
                        Eval(AllStages[i].ready_equivalences[j][a], datums) = Null

-----------------------------------------------------------------------------
\* Whether the stage st fails to evaluate on a row: a predicate or a member
\* of an equivalence in a filter, an expression of the key in a lookup.
Offends(st, datums) ==
    IF st.kind = "filter" THEN FilterOutcome(st, datums) = "error"
    ELSE KeyFails(st.prev_key, datums)

\* Whether an update of the ok output of st stems from the row datums.
StemsFrom(o, datums) ==
    /\ Len(o.row) >= Len(datums)
    /\ SubSeq(o.row, 1, Len(datums)) = datums

(* C9: at every stage of every delta stream, an update whose row fails to    *)
(* evaluate is in the stage's error output and nothing in the ok output      *)
(* stems from it, and the stage gives for the other updates the ok output    *)
(* and the errors it gives when the failing update is not there.             *)
C9_ErrorsDoNotAbort ==
    pc = "done" =>
        \A i \in DOMAIN delta_queries :
            LET dq == delta_queries[i] IN
            \A k \in DOMAIN dq.stages :
                \A W \in {After(dq.stages, k - 1, RootStream(dq.relation))} :
                    \A out \in {RunStage(dq.stages[k], W)} :
                        \A w \in W :
                            Offends(dq.stages[k], w.row) =>
                                /\ w \in out.err
                                /\ \A o \in out.ok : ~StemsFrom(o, w.row)
                                /\ RunStage(dq.stages[k], W \ {w}).ok = out.ok
                                /\ RunStage(dq.stages[k], W \ {w}).err = out.err \ {w}

\* A filter meets a row on which a predicate fails and another row, which it
\* lets through.
C9_Witness ==
    /\ pc = "done"
    /\ \E i \in DOMAIN delta_queries :
          LET dq == delta_queries[i] IN
          \E k \in DOMAIN dq.stages :
              LET W == After(dq.stages, k - 1, RootStream(dq.relation)) IN
              /\ dq.stages[k].kind = "filter"
              /\ \E w \in W : Offends(dq.stages[k], w.row)
              /\ RunStage(dq.stages[k], W).ok # {}

-----------------------------------------------------------------------------
(* Retractions.                                                            *)

\* An input takes back a row it has added, at the time of the addition or
\* later; this may be one update more than Update allows.
Retract ==
    /\ pc = "done"
    /\ Cardinality(updates) <= N + MaxExtraUpdates
    /\ \E u \in updates, t \in Times :
          LET v == [rel |-> u.rel, row |-> u.row, time |-> t, diff |-> 0 - 1] IN
          /\ u.diff = 1
          /\ t >= u.time
          /\ v \notin updates
          /\ \A t2 \in Times : Accumulated(UpdatesOf(u.rel) \cup {v}, u.row, t2) >= 0
          /\ updates' = updates \cup {v}
    /\ UNCHANGED <<plan, ctx, pc, panic, rendered, relation, step, equivalences,
                   predicates, source_columns, bound_inputs, update_stream,
                   started, region_errs, inner_errs, scope_errs,
                   local_err_dedup, trace_err_dedup, delta_queries>>

NextRetract == Render \/ Update \/ Retract

\* The joins with a single equivalence class.
InitOneClass == InitData /\ Len(plan.equivalences) = 1

\* Retractions are run on the joins with a single equivalence class.
SpecRetract == InitOneClass /\ [][NextRetract]_vars

\* The pairs of an addition and a later retraction of the same row.
Retracted ==
    {p \in updates \X updates :
        /\ p[1].rel = p[2].rel
        /\ p[1].row = p[2].row
        /\ p[1].diff = 1
        /\ p[2].diff = 0 - 1
        /\ p[2].time >= p[1].time}

(* C11: when an input has added a row and retracted it at the same or a     *)
(* later time, then from the time of the retraction on every row has in the *)
(* combined output the multiplicity it has when the inputs receive neither  *)
(* of the two updates, whatever else the inputs have received.              *)
C11_RetractionCancels ==
    pc = "done" =>
        \A p \in Retracted :
            \A with \in {DeltaOutputs} :
                \A without \in {DeltaOutputsOn(updates \ {p[1], p[2]})} :
                    \A t \in Times :
                        t >= p[2].time =>
                            \A row \in RowCombos(plan.inputs) :
                                OutputAt(with, row, t) = OutputAt(without, row, t)

\* A row joined with a row of another input was in the output and is gone
\* after its retraction.
C11_Witness ==
    /\ pc = "done"
    /\ \E p \in Retracted :
          /\ p[1].time < p[2].time
          /\ \E u \in updates : u.rel # p[1].rel
          /\ \E row \in RowCombos(plan.inputs) :
                /\ OutputAt(DeltaOutputs, row, p[1].time) = 1
                /\ OutputAt(DeltaOutputs, row, p[2].time) = 0

-----------------------------------------------------------------------------
(* The rendering of a delta stream as a function of the plan, for plans     *)
(* that render without panic: what BeginRoot, Lookup and FinishRoot build.  *)

\* Lines 121-234 for one entry of the order, on the stream built so far.
RenderLookup(pl, c, r, acc, entry) ==
    LET other == entry[1]
        next_key == entry[2]
        rel == pl.inputs[other + 1]
        next_key_rebased ==
            [i \in DOMAIN next_key |-> MapExprToGlobal(next_key[i], pl.inputs, other)]
        prev_key ==
            [i \in DOMAIN next_key |->
                RewriteColumns(FindBoundExpr(pl.inputs, next_key_rebased[i],
                                             acc.bound_inputs, acc.equivalences),
                               acc.source_columns)]
        arr == Arrangement(c, rel, next_key)
        stage == [kind |-> "lookup",
                  other |-> other,
                  rel |-> rel,
                  next_key |-> next_key,
                  prev_key |-> prev_key,
                  flavor |-> Flavor(arr, other, r),
                  arrangement |-> arr,
                  source_columns |-> acc.source_columns,
                  bound_before |-> acc.bound_inputs,
                  equivalences_before |-> acc.equivalences]
        sc == acc.source_columns \o GlobalColumns(pl.inputs, other)
    IN  CHOOSE next \in
            {[stream |-> f.stream,
              source_columns |-> sc,
              predicates |-> f.predicates,
              equivalences |-> f.equivalences,
              bound_inputs |-> Append(acc.bound_inputs, other)] :
                f \in {BuildFilter(Append(acc.stream, stage), sc, acc.predicates,
                                   RemoveKeys(acc.equivalences, next_key_rebased))}} : TRUE

\* Lines 72-234: the stream rooted at r after the first k entries of its order.
RECURSIVE RenderOrder(_, _, _, _)
RenderOrder(pl, c, r, k) ==
    IF k = 0
    THEN LET sc == GlobalColumns(pl.inputs, r) IN
         CHOOSE first \in
             {[stream |-> f.stream,
               source_columns |-> sc,
               predicates |-> f.predicates,
               equivalences |-> f.equivalences,
               bound_inputs |-> <<r>>] :
                 f \in {BuildFilter(<<>>, sc, ClonePredicates(pl.predicates, <<>>),
                                    CloneEquivalences(pl.equivalences, <<>>))}} : TRUE
    ELSE CHOOSE next \in {RenderLookup(pl, c, r, acc, pl.orders[r + 1][k]) :
                              acc \in {RenderOrder(pl, c, r, k - 1)}} : TRUE

\* Lines 72-252: the delta stream rooted at r.
RenderRoot(pl, c, r) ==
    CHOOSE dq \in {[relation |-> r, stages |-> acc.stream,
                     permutation |-> Permutation(acc.source_columns)] :
                        acc \in {RenderOrder(pl, c, r, Len(pl.orders[r + 1]))}} : TRUE

\* The outputs of the delta streams of plan pl on the updates U.
OutputsOfPlan(pl, c, U) ==
    [i \in DOMAIN pl.inputs |->
        UNION {{[row |-> Permute(w.row, dq.permutation), time |-> w.time,
                 diff |-> w.diff] :
                   w \in AfterOn(U, dq.stages, Len(dq.stages),
                                 {[row |-> u.row, time |-> u.time, diff |-> u.diff] :
                                     u \in UpdatesIn(U, pl.inputs[i])})} :
               dq \in {RenderRoot(pl, c, i - 1)}}]

-----------------------------------------------------------------------------
(* The same join with its inputs listed in another order.                  *)

\* The permutations of the positions 0 .. n - 1.
Perms(n) ==
    {f \in [0..(n - 1) -> 0..(n - 1)] : \A i, j \in 0..(n - 1) : f[i] = f[j] => i = j}

\* The inputs when input i moves to position f[i].
PermutedInputs(inputs, f) ==
    [j \in DOMAIN inputs |-> inputs[(CHOOSE i \in DOMAIN f : f[i] = j - 1) + 1]]

\* Where each global column goes when input i moves to position f[i].
ColumnMap(inputs, f) ==
    [c \in 0..(TotalArity(inputs) - 1) |->
        LET i == InputOfColumn(inputs, c) IN
        ArityBefore(PermutedInputs(inputs, f), f[i]) + (c - ArityBefore(inputs, i))]

\* The plan renumbered: inputs, equivalences, predicates and orders.
PermutedPlan(pl, f) ==
    LET cm == ColumnMap(pl.inputs, f) IN
    [inputs |-> PermutedInputs(pl.inputs, f),
     equivalences |-> [j \in DOMAIN pl.equivalences |->
                          [k \in DOMAIN pl.equivalences[j] |->
                              MapColumns(pl.equivalences[j][k], cm)]],
     predicates |-> [j \in DOMAIN pl.predicates |-> MapColumns(pl.predicates[j], cm)],
     orders |-> [j \in DOMAIN pl.orders |->
                    LET o == pl.orders[(CHOOSE i \in DOMAIN f : f[i] = j - 1) + 1] IN
                    [k \in DOMAIN o |-> <<f[o[k][1]], o[k][2]>>]],
     implementation |-> pl.implementation]

\* A row of the renumbered plan in the column order of the plan.
UnpermutedRow(row, cm) == [j \in DOMAIN row |-> row[cm[j - 1] + 1]]

\* The outputs of the renumbered plan in the column order of the plan.
Unpermuted(outs, cm) ==
    [i \in DOMAIN outs |->
        {[row |-> UnpermutedRow(o.row, cm), time |-> o.time, diff |-> o.diff] :
            o \in outs[i]}]

\* The rows that occur in the outputs of the streams.
RowsIn(outs) == UNION {{o.row : o \in outs[i]} : i \in DOMAIN outs}

\* The renumbered plans are rendered for the joins with a single class.
SpecPermuted == InitOneClass /\ [][Next]_vars

(* C12: for every permutation of the inputs of the plan, the renumbered     *)
(* plan rendered and run on the same updates emits, with the columns put    *)
(* back in the order of the plan, the rows the plan emits, each with the    *)
(* same multiplicity at every time.                                         *)
C12_InputOrderIrrelevant ==
    pc = "done" =>
        \A outs \in {DeltaOutputs} :
            \A f \in Perms(N) :
                \A other \in {Unpermuted(OutputsOfPlan(pl, ctx, updates),
                                         ColumnMap(plan.inputs, f)) :
                                  pl \in {PermutedPlan(plan, f)}} :
                    \A row \in RowsIn(outs) \cup RowsIn(other) :
                        \A t \in Times :
                            OutputAt(other, row, t) = OutputAt(outs, row, t)

\* Two inputs updated at one time with rows that join: the joined row is
\* emitted by the stream rooted at the first input, which is another relation
\* once the inputs are exchanged.
C12_Witness ==
    /\ pc = "done"
    /\ N = 2
    /\ plan.inputs[1] # plan.inputs[2]
    /\ Cardinality(updates) = 2
    /\ \A u, v \in updates : u.time = v.time /\ u.diff = 1
    /\ DeltaOutputs[1] # {}
    /\ DeltaOutputs[2] = {}
    /\ \E f \in Perms(N) :
          /\ f[0] = 1
          /\ OutputsOfPlan(PermutedPlan(plan, f), ctx, updates)[1] # {}
          /\ OutputsOfPlan(PermutedPlan(plan, f), ctx, updates)[2] = {}

-----------------------------------------------------------------------------
\* Whether a row of the only input satisfies the predicates and the classes
\* of at least two expressions.
PassesAll(datums) ==
    /\ \A j \in DOMAIN plan.predicates : Eval(plan.predicates[j], datums) = "true"
    /\ \A j \in DOMAIN plan.equivalences :
          Cardinality(Range(plan.equivalences[j])) >= 2
              => AllSame(plan.equivalences[j], datums)

(* C13: the delta join of a single input has one stream without lookup,     *)
(* whose output is the updates of the input whose rows satisfy every        *)
(* predicate and every equivalence class of at least two expressions, with  *)
(* the columns in the order of the input; the error streams are those of    *)
(* the input and of the filter (if there is one) and no other.              *)
C13_SingleInput ==
    (pc = "done" /\ N = 1) =>
        /\ Len(delta_queries) = 1
        /\ Lookups(delta_queries[1].stages) = <<>>
        /\ delta_queries[1].permutation = [c \in 1..ArityOf(plan.inputs[1]) |-> c - 1]
        /\ DeltaOutputs[1] = {w \in RootStream(0) : PassesAll(w.row)}
        /\ scope_errs = <<ErrStream("collection", plan.inputs[1], <<>>),
                          ErrStream("inner", "", <<>>)>>
        /\ Len(inner_errs) = 1
        /\ inner_errs[1] = IF delta_queries[1].stages = <<>> THEN <<>>
                           ELSE <<ErrStream("filter", 0, 0)>>

\* The single input holds a row that satisfies the predicate but not the
\* equivalence: the filter drops it.
C13_Witness ==
    /\ pc = "done"
    /\ N = 1
    /\ Len(delta_queries[1].stages) = 1
    /\ \E u \in updates :
          /\ \A j \in DOMAIN plan.predicates : Eval(plan.predicates[j], u.row) = "true"
          /\ ~PassesAll(u.row)
    /\ DeltaOutputs[1] = {}

-----------------------------------------------------------------------------
\* The expressions of a class that a call of build_filter with the columns sc
\* is to leave in it: those not fully supported, and the first supported one.
KeptBy(class, sc) ==
    {class[k] : k \in {i \in DOMAIN class :
                          \/ ~Supported(class[i], sc)
                          \/ \A j \in 1..(i - 1) : ~Supported(class[j], sc)}}

\* What a call of build_filter with the columns sc, the predicates ps and the
\* equivalences es is to leave as predicates ps2 and equivalences es2.
Left(sc, ps, es, ps2, es2) ==
    /\ \A j \in DOMAIN ps2 : ~Supported(ps2[j], sc)
    /\ ps2 = SelectSeq(ps, LAMBDA p : ~Supported(p, sc))
    /\ \A j \in DOMAIN es2 :
          /\ Len(es2[j]) >= 2
          /\ Cardinality({k \in DOMAIN es2[j] : Supported(es2[j][k], sc)}) <= 1
    /\ es2 = SelectSeq([j \in DOMAIN es |->
                           SelectSeq(es[j], LAMBDA e : e \in KeptBy(es[j], sc))],
                       LAMBDA class : Len(class) >= 2)

\* The key of the entry the next lookup takes, in global columns.
NextKeyRebased ==
    LET entry == plan.orders[relation + 1][step + 1] IN
    [i \in DOMAIN entry[2] |-> MapExprToGlobal(entry[2][i], plan.inputs, entry[1])]

(* C14: every call of build_filter, the one at the root and the one after   *)
(* each lookup, leaves no predicate whose columns are all in the provenance *)
(* and only classes of at least two expressions of which at most one is     *)
(* fully supported; it removes from a class exactly the fully supported     *)
(* expressions other than the first one, and changes nothing else in the    *)
(* predicates and classes it leaves.                                        *)
C14_Residuals ==
    [][/\ (pc = "root" /\ pc' = "order") =>
              Left(source_columns', started'.predicates, started'.equivalences,
                   predicates', equivalences')
       /\ (pc = "order" /\ step' = step + 1) =>
              Left(source_columns', predicates,
                   RemoveKeys(equivalences, NextKeyRebased),
                   predicates', equivalences')]_vars

\* The root filter has taken a supported expression out of a class and left
\* the first supported one in it, next to one that is not yet supported.
C14_Witness ==
    /\ pc = "order"
    /\ step = 0
    /\ \E j \in DOMAIN equivalences : \E k \in DOMAIN started.equivalences :
          /\ Range(equivalences[j]) \subseteq Range(started.equivalences[k])
          /\ Range(equivalences[j]) # Range(started.equivalences[k])
          /\ Cardinality({e \in Range(equivalences[j]) : Supported(e, source_columns)}) = 1

-----------------------------------------------------------------------------
\* The inputs a stream has bound after its first k stages: the root, then the
\* peers of the lookups in the order of the stages.
BoundAfter(dq, k) ==
    <<dq.relation>>
    \o [i \in 1..Len(Lookups(SubSeq(dq.stages, 1, k))) |->
           Lookups(SubSeq(dq.stages, 1, k))[i].other]

\* The global columns of a sequence of inputs, one input after the other.
ColumnsOf(bound) ==
    Flatten([i \in DOMAIN bound |-> GlobalColumns(plan.inputs, bound[i])])

(* C15: while a stream is built, source_columns is the global columns of    *)
(* the inputs bound so far, root first and then in the order they were      *)
(* joined; every stage is built on the provenance of the inputs bound       *)
(* before it, and the stream ends with that of all its inputs. Every row    *)
(* of the working stream has as many columns as the provenance at that      *)
(* point: a lookup outputs a row of its input followed by a row of the      *)
(* peer, a filter outputs rows of its input unchanged.                      *)
C15_ProvenanceLockstep ==
    /\ pc = "order" =>
          /\ bound_inputs = <<relation>>
                 \o [i \in 1..step |-> plan.orders[relation + 1][i][1]]
          /\ source_columns = ColumnsOf(bound_inputs)
    /\ \A i \in DOMAIN delta_queries :
          LET dq == delta_queries[i] IN
          /\ dq.source_columns = ColumnsOf(BoundAfter(dq, Len(dq.stages)))
          /\ \A k \in DOMAIN dq.stages :
                /\ dq.stages[k].source_columns = ColumnsOf(BoundAfter(dq, k - 1))
                /\ dq.stages[k].kind = "lookup" =>
                      dq.stages[k].bound_before = BoundAfter(dq, k - 1)
    /\ pc = "done" =>
          \A i \in DOMAIN delta_queries :
              LET dq == delta_queries[i] IN
              \A k \in 0..Len(dq.stages) :
                  \A W \in {After(dq.stages, k, RootStream(dq.relation))} :
                      /\ \A w \in W : Len(w.row) = Len(ColumnsOf(BoundAfter(dq, k)))
                      /\ k > 0 =>
                            \A V \in {After(dq.stages, k - 1, RootStream(dq.relation))} :
                                IF dq.stages[k].kind = "filter"
                                THEN W \subseteq V
                                ELSE \A o \in W :
                                        \E w \in V : \E u \in UpdatesOf(dq.stages[k].rel) :
                                            o.row = w.row \o u.row

\* A lookup has joined a row with a row of the peer that differs from it.
C15_Witness ==
    /\ pc = "done"
    /\ \E i \in DOMAIN delta_queries :
          LET dq == delta_queries[i] IN
          \E k \in DOMAIN dq.stages :
              /\ dq.stages[k].kind = "lookup"
              /\ \E o \in After(dq.stages, k, RootStream(dq.relation)) :
                    \E u \in UpdatesOf(dq.stages[k].rel) :
                        /\ Len(o.row) = Len(dq.stages[k].source_columns) + Len(u.row)
                        /\ SubSeq(o.row, Len(dq.stages[k].source_columns) + 1, Len(o.row))
                               = u.row
                        /\ SubSeq(o.row, 1, Len(dq.stages[k].source_columns)) # u.row

-----------------------------------------------------------------------------
\* The keys of the lookups of a stream, in global columns.
KeysOf(stages) ==
    UNION {{MapExprToGlobal(stages[k].next_key[i], plan.inputs, stages[k].other) :
               i \in DOMAIN stages[k].next_key} :
           k \in {j \in DOMAIN stages : stages[j].kind = "lookup"}}

\* The tuples the filter stages among the stages from position k on equate.
TuplesFrom(stages, k) ==
    UNION {Range(stages[j].ready_equivalences) :
              j \in {i \in DOMAIN stages : i >= k /\ stages[i].kind = "filter"}}

(* C16: on every lookup step, the i-th expression of the probe key is the   *)
(* first expression over the bound inputs in the first class that holds     *)
(* the i-th key expression, the classes, bound inputs and provenance being  *)
(* those before the step. After the step no class holds a key expression,   *)
(* every class has at least two expressions, and no filter built by this    *)
(* or a later step equates a key expression of this stream. The other       *)
(* expressions of a class that held a key expression are not lost: when at  *)
(* least two of them are supported after the lookup, the filter built by    *)
(* the step equates exactly the supported ones.                             *)
C16_KeysConsumed ==
    [][(pc = "order" /\ step' = step + 1) =>
          LET lookup == update_stream'[Len(update_stream) + 1]
              keys == Range(NextKeyRebased)
          IN  /\ lookup.kind = "lookup"
              /\ \A i \in DOMAIN NextKeyRebased :
                    LET holding == {j \in DOMAIN equivalences :
                                       Contains(equivalences[j], NextKeyRebased[i])}
                        class == equivalences[CHOOSE j \in holding :
                                                  \A j2 \in holding : j <= j2]
                        over == {k \in DOMAIN class :
                                    LookupInputs(plan.inputs, class[k])
                                        \subseteq Range(bound_inputs)}
                    IN  lookup.prev_key[i]
                            = RewriteColumns(class[CHOOSE k \in over :
                                                       \A k2 \in over : k <= k2],
                                             source_columns)
              /\ \A j \in DOMAIN equivalences' :
                    /\ Range(equivalences'[j]) \cap keys = {}
                    /\ Len(equivalences'[j]) >= 2
              /\ \A tuple \in TuplesFrom(update_stream', Len(update_stream) + 1) :
                    \A e \in KeysOf(update_stream') :
                        Supported(e, source_columns')
                            => ~Contains(tuple, RewriteColumns(e, source_columns'))
              /\ \A j \in DOMAIN equivalences :
                    LET rest == Range(equivalences[j]) \ keys
                        ready == {e \in rest : Supported(e, source_columns')}
                    IN  (Cardinality(rest) >= 2 /\ Cardinality(ready) >= 2) =>
                            \E tuple \in TuplesFrom(update_stream',
                                                    Len(update_stream) + 1) :
                                Range(tuple)
                                    = {RewriteColumns(e, source_columns') : e \in ready}]_vars

\* A lookup has taken one expression of a class of three as its key, and the
\* filter that follows equates the two that are left.
C16_Witness ==
    /\ pc = "order"
    /\ Len(update_stream) >= 2
    /\ update_stream[Len(update_stream)].kind = "filter"
    /\ update_stream[Len(update_stream) - 1].kind = "lookup"
    /\ \E class \in Range(update_stream[Len(update_stream) - 1].equivalences_before) :
          /\ Len(class) = 3
          /\ Range(class) \cap KeysOf(update_stream) # {}
          /\ \E tuple \in Range(update_stream[Len(update_stream)].ready_equivalences) :
                Range(tuple) = {RewriteColumns(e, source_columns) :
                                   e \in Range(class) \ KeysOf(update_stream)}

-----------------------------------------------------------------------------
\* Whether no expression is in two classes of the plan.
DisjointClasses ==
    \A i, j \in DOMAIN plan.equivalences :
        i # j => Range(plan.equivalences[i]) \cap Range(plan.equivalences[j]) = {}

(* C17: a delta stream whose order visits every other input exactly once,   *)
(* of a plan whose classes are pairwise disjoint, ends with no predicate    *)
(* and no class left over, and every row it emits satisfies every           *)
(* predicate of the plan and has, for every class of the plan, all the      *)
(* expressions of the class equal, NULL being equal to NULL.                *)
C17_NothingLeftOver ==
    \A i \in DOMAIN delta_queries :
        LET dq == delta_queries[i] IN
        (CompleteOrder(dq.relation) /\ DisjointClasses) =>
            /\ dq.predicates = <<>>
            /\ dq.equivalences = <<>>
            /\ pc = "done" => \A o \in DeltaOutput(dq) : Satisfies(o.row)

\* A stream of a join of three inputs with predicates and classes emits a row.
C17_Witness ==
    /\ pc = "done"
    /\ N = 3
    /\ plan.predicates # <<>>
    /\ Len(plan.equivalences) = 2
    /\ \E i \in DOMAIN delta_queries :
          /\ CompleteOrder(delta_queries[i].relation)
          /\ DeltaOutput(delta_queries[i]) # {}

-----------------------------------------------------------------------------
\* The diff of the value v of the peer that a lookup entered with flavor has
\* before it for an update at time t: the updates of v at earlier times, and
\* at t when the arrangement is entered at alt.
SeenDiff(arranged, flavor, v, t) ==
    LET of == {u \in arranged :
                  /\ u.row = v
                  /\ \/ u.time < t
                     \/ u.time = t /\ flavor = "alt"}
    IN  SumOver(of, [u \in of |-> u.diff])

\* Whether the key of the working row datums is the key of the peer value v.
SameKey(st, datums, v) ==
    /\ ~KeyFails(st.prev_key, datums)
    /\ \A i \in DOMAIN st.next_key :
          Eval(st.prev_key[i], datums) = Eval(st.next_key[i], v)

\* The lookup st on the stream W emits out: for an update of W whose key
\* evaluates and a value of the peer under that key, the two rows one after
\* the other with the product of the diffs, and nothing else.
EmitsProducts(st, W, arranged, out) ==
    /\ \A o \in out :
          LET n == Len(st.source_columns) IN
          /\ Len(o.row) > n
          /\ SameKey(st, SubSeq(o.row, 1, n), SubSeq(o.row, n + 1, Len(o.row)))
          /\ \E u \in arranged : u.row = SubSeq(o.row, n + 1, Len(o.row))
          /\ \E w \in W :
                /\ w.row = SubSeq(o.row, 1, n)
                /\ w.time = o.time
                /\ o.diff = w.diff * SeenDiff(arranged, st.flavor,
                                              SubSeq(o.row, n + 1, Len(o.row)), w.time)
    /\ \A w \in W : \A u \in arranged :
          (SameKey(st, w.row, u.row)
              /\ SeenDiff(arranged, st.flavor, u.row, w.time) # 0)
          => [row |-> w.row \o u.row, time |-> w.time,
              diff |-> w.diff * SeenDiff(arranged, st.flavor, u.row, w.time)] \in out

\* Whether out accumulates at every time to the join of W with the
\* arrangement as of that time.
AccumulatesToJoin(st, W, arranged, out) ==
    \A t \in Times : \A w \in W : \A u \in arranged :
        Accumulated(out, w.row \o u.row, t)
            = IF SameKey(st, w.row, u.row)
              THEN Accumulated(W, w.row, t) * Accumulated(arranged, u.row, t)
              ELSE 0

\* Whether every update of the arrangement is before every update of W.
Steady(st, W, arranged) ==
    \A w \in W : \A u \in arranged :
        \/ u.time < w.time
        \/ u.time = w.time /\ st.flavor = "alt"

(* C18 as stated: every lookup emits, for a working update whose key         *)
(* evaluates and each peer value under that key (NULL matching NULL), the   *)
(* working row followed by the peer value's columns with the product of     *)
(* the diffs and nothing for other keys, and its output accumulated to a    *)
(* time T is the join of the working collection with the arrangement as of  *)
(* T.                                                                       *)
C18_LookupIsJoin ==
    pc = "done" =>
        \A i \in DOMAIN delta_queries :
            LET dq == delta_queries[i] IN
            \A k \in DOMAIN dq.stages :
                dq.stages[k].kind = "lookup" =>
                    \A W \in {After(dq.stages, k - 1, RootStream(dq.relation))} :
                        \A arranged \in {Arranged(dq.stages[k].rel, dq.stages[k].next_key)} :
                            \A out \in {BuildLookupRun(dq.stages[k], W).ok} :
                                /\ EmitsProducts(dq.stages[k], W, arranged, out)
                                /\ AccumulatesToJoin(dq.stages[k], W, arranged, out)

(* C18 amended: every lookup emits, for a working update at time t whose    *)
(* key evaluates and each peer value under that key (NULL matching NULL),   *)
(* the working row followed by the peer value's columns with the product    *)
(* of the update's diff and the diff the peer value has accumulated before  *)
(* the update (at earlier times, and at t when the arrangement is entered   *)
(* at alt), and nothing for other keys; when every update of the            *)
(* arrangement is before every working update, the output accumulated to a  *)
(* time T is the join of the working collection with the arrangement as of  *)
(* T.                                                                       *)
C18_LookupIsHalfJoin ==
    pc = "done" =>
        \A i \in DOMAIN delta_queries :
            LET dq == delta_queries[i] IN
            \A k \in DOMAIN dq.stages :
                dq.stages[k].kind = "lookup" =>
                    \A W \in {After(dq.stages, k - 1, RootStream(dq.relation))} :
                        \A arranged \in {Arranged(dq.stages[k].rel, dq.stages[k].next_key)} :
                            \A out \in {BuildLookupRun(dq.stages[k], W).ok} :
                                /\ EmitsProducts(dq.stages[k], W, arranged, out)
                                /\ Steady(dq.stages[k], W, arranged) =>
                                      AccumulatesToJoin(dq.stages[k], W, arranged, out)

\* A working row whose key holds a NULL has met, at a later time, the peer
\* value under that key and is emitted with it.
C18_Witness ==
    /\ pc = "done"
    /\ \E i \in DOMAIN delta_queries :
          LET dq == delta_queries[i] IN
          \E k \in DOMAIN dq.stages :
              /\ dq.stages[k].kind = "lookup"
              /\ \E w \in After(dq.stages, k - 1, RootStream(dq.relation)) :
                    \E u \in Arranged(dq.stages[k].rel, dq.stages[k].next_key) :
                        /\ u.time < w.time
                        /\ SameKey(dq.stages[k], w.row, u.row)
                        /\ Null \in Range(KeyOf(dq.stages[k].next_key, u.row))
                        /\ [row |-> w.row \o u.row, time |-> w.time, diff |-> 1]
                               \in BuildLookupRun(dq.stages[k],
                                       After(dq.stages, k - 1, RootStream(dq.relation))).ok

-----------------------------------------------------------------------------
\* The keys under which the finished streams probe the relation rel.
ProbedKeys(rel) ==
    {a[2] : a \in {b \in PlanArrangements : b[1] = rel}}

\* The streams of scope_errs that carry the errors of the relation rel: its
\* collections' and its arrangements'.
ErrsOf(rel) ==
    {j \in DOMAIN scope_errs :
        /\ scope_errs[j].kind \in {"collection", "arrangement"}
        /\ scope_errs[j].rel = rel}

\* The error streams the region of the delta stream dq holds: one of the
\* key evaluation of every lookup, one of every filter.
RegionErrsOf(dq) ==
    LET at == SelectSeq([k \in DOMAIN dq.stages |-> k],
                        LAMBDA k : dq.stages[k].kind \in {"lookup", "filter"})
    IN  [j \in DOMAIN at |->
            ErrStream(dq.stages[at[j]].kind, dq.relation,
                      Len(Lookups(SubSeq(dq.stages, 1, at[j])))
                          - (IF dq.stages[at[j]].kind = "lookup" THEN 1 ELSE 0))]

(* C19: the combined error output of a finished rendering is made of the    *)
(* error collection of each of the N inputs, once per root index even when  *)
(* two inputs are the same relation, of one error collection per distinct   *)
(* (peer relation, key) arrangement probed, and of the inner scope's        *)
(* errors, which are the filter and key evaluation errors of all the delta  *)
(* streams, and of nothing else; the errors of an input that is probed      *)
(* under m distinct keys are contributed 1 + m times.                       *)
C19_ErrorUnion ==
    pc = "done" =>
        /\ Len(scope_errs) = N + Cardinality(PlanArrangements) + 1
        /\ \A r \in 1..N :
              Pushed(ErrStream("collection", plan.inputs[r], <<>>))
                  = Cardinality({q \in 1..N : plan.inputs[q] = plan.inputs[r]})
        /\ \A a \in PlanArrangements : Pushed(ErrStream("arrangement", a[1], a[2])) = 1
        /\ Pushed(ErrStream("inner", "", <<>>)) = 1
        /\ Len(inner_errs) = N
        /\ \A i \in DOMAIN delta_queries : inner_errs[i] = RegionErrsOf(delta_queries[i])
        /\ \A r \in 1..N :
              Cardinality({q \in 1..N : plan.inputs[q] = plan.inputs[r]}) = 1 =>
                  Cardinality(ErrsOf(plan.inputs[r]))
                      = 1 + Cardinality(ProbedKeys(plan.inputs[r]))

\* A finished rendering one of whose inputs is probed under two keys: its
\* errors are in three streams of the combined output.
C19_Witness ==
    /\ pc = "done"
    /\ \E r \in 1..N :
          /\ Cardinality({q \in 1..N : plan.inputs[q] = plan.inputs[r]}) = 1
          /\ Cardinality(ProbedKeys(plan.inputs[r])) = 2
          /\ Cardinality(ErrsOf(plan.inputs[r])) = 3
          /\ \E i \in DOMAIN inner_errs : Len(inner_errs[i]) > 2

-----------------------------------------------------------------------------
\* The joins of two inputs under every order, also the ones that visit
\* nothing, run on data.
InitAnyOrder ==
    /\ Init
    /\ plan \in DeltaPlans
    /\ Len(plan.inputs) = 2
    /\ ctx = DataContext

SpecAnyOrder == InitAnyOrder /\ [][Next]_vars

(* C20: every row emitted by a delta stream has as many columns as the      *)
(* concatenation of all N inputs; a rendering whose orders[r] fails to      *)
(* visit some input, or visits an input twice, aborts and emits nothing.    *)
C20_FullWidth ==
    \A i \in DOMAIN delta_queries :
        \A o \in DeltaOutput(delta_queries[i]) :
            Len(o.row) = TotalArity(plan.inputs)

-----------------------------------------------------------------------------
\* The two panics of the translation of a key (lines 133 and 136).
KeyPanics ==
    {"Expression in join plan is not bound at time of use",
     "Did not find bound column in source_columns"}

\* The inputs the entries before the i-th of orders[r] visit, and the root.
BoundBefore(r, i) ==
    {r} \cup {plan.orders[r + 1][m][1] : m \in 1..(i - 1)}

\* In the plan as given, every key expression of every entry of orders[r]
\* shares a class with an expression over the root and the peers before it.
KeysBoundInPlan(r) ==
    \A i \in DOMAIN plan.orders[r + 1] :
        LET other == plan.orders[r + 1][i][1]
            next_key == plan.orders[r + 1][i][2]
        IN  \A j \in DOMAIN next_key :
                \E c \in DOMAIN plan.equivalences :
                    /\ Contains(plan.equivalences[c],
                                MapExprToGlobal(next_key[j], plan.inputs, other))
                    /\ \E x \in Range(plan.equivalences[c]) :
                          LookupInputs(plan.inputs, x) \subseteq BoundBefore(r, i)

\* Whether no entry of orders[r] uses a key expression of an earlier entry
\* of the same peer.
KeysUsedOnce(r) ==
    \A i, j \in DOMAIN plan.orders[r + 1] :
        (i < j /\ plan.orders[r + 1][i][1] = plan.orders[r + 1][j][1]) =>
            Range(plan.orders[r + 1][i][2]) \cap Range(plan.orders[r + 1][j][2]) = {}

-----------------------------------------------------------------------------
\* What one comparison of a filter does to a row.
CheckOf(v, wanted) ==
    IF v = "error" THEN "error" ELSE IF v = wanted THEN "pass" ELSE "drop"

\* The comparisons of the filter stage st on a row, in the order the closure
\* makes them: every ready predicate against TRUE, then every member of
\* every ready tuple against the tuple's first.
ChecksOf(st, datums) ==
    [i \in DOMAIN st.ready_to_go |-> CheckOf(Eval(st.ready_to_go[i], datums), "true")]
    \o Flatten([e \in DOMAIN st.ready_equivalences |->
            [j \in DOMAIN st.ready_equivalences[e] |->
                CheckOf(Eval(st.ready_equivalences[e][j], datums),
                        Eval(st.ready_equivalences[e][1], datums))]])

\* The first comparison that does not pass decides; a row that passes them
\* all is kept.
Verdict(checks) ==
    LET decisive == {i \in DOMAIN checks : checks[i] # "pass"} IN
    IF decisive = {} THEN "kept"
    ELSE checks[CHOOSE i \in decisive : \A j \in decisive : i <= j]

(* C22: in a filter stage every input row has exactly one outcome, kept in  *)
(* the ok stream, dropped, or sent to the error stream, never both ok and   *)
(* error; the predicates are evaluated in list order before the             *)
(* equivalences and the first predicate that is not TRUE or member that is  *)
(* unequal ends the evaluation, so a row dropped by an earlier constraint   *)
(* gives no error even if a later ready expression fails on it.             *)
C22_OneOutcome ==
    \A i \in DOMAIN AllStages :
        AllStages[i].kind = "filter" =>
            \A datums \in StageRows(AllStages[i].source_columns) :
                \A w \in {[row |-> datums, time |-> 0, diff |-> 1]} :
                    \A out \in {FilterFallible(AllStages[i], {w})} :
                        \A verdict \in {Verdict(ChecksOf(AllStages[i], datums))} :
                            /\ ~(w \in out.ok /\ w \in out.err)
                            /\ w \in out.ok <=> verdict = "kept"
                            /\ w \in out.err <=> verdict = "error"
                            /\ (w \notin out.ok /\ w \notin out.err) <=> verdict = "drop"

\* A filter drops a row on a predicate, and a tuple member that comes later
\* fails on the row; the same filter keeps another row.
C22_Witness ==
    \E i \in DOMAIN AllStages :
        /\ AllStages[i].kind = "filter"
        /\ \E datums \in StageRows(AllStages[i].source_columns) :
              LET checks == ChecksOf(AllStages[i], datums) IN
              /\ Verdict(checks) = "drop"
              /\ \E a, b \in DOMAIN checks :
                    /\ a <= Len(AllStages[i].ready_to_go)
                    /\ b > Len(AllStages[i].ready_to_go)
                    /\ checks[a] = "drop"
                    /\ checks[b] = "error"
              /\ FilterFallible(AllStages[i], {[row |-> datums, time |-> 0, diff |-> 1]})
                     = [ok |-> {}, err |-> {}]
        /\ \E datums \in StageRows(AllStages[i].source_columns) :
              Verdict(ChecksOf(AllStages[i], datums)) = "kept"

-----------------------------------------------------------------------------
\* Whether a call of build_filter with the columns sc finds something ready
\* among the predicates ps and the classes es: a fully supported predicate,
\* or two fully supported expressions of one class.
SomethingReady(sc, ps, es) ==
    \/ \E j \in DOMAIN ps : Supported(ps[j], sc)
    \/ \E j \in DOMAIN es :
          Cardinality({k \in DOMAIN es[j] : Supported(es[j][k], sc)}) >= 2

\* Whether x is the expression e over global columns with every column
\* reference replaced by the column's position in sc: x refers to the
\* positions of the columns of e, and on every working row it evaluates to
\* what e evaluates to on the row in the canonical order.
IsRewriteOf(x, e, sc) ==
    /\ Support(x) = {k - 1 : k \in {m \in DOMAIN sc : sc[m] \in Support(e)}}
    /\ \A full \in RowCombos(plan.inputs) :
          Eval(x, [k \in DOMAIN sc |-> full[sc[k] + 1]]) = Eval(e, full)

\* Whether the filter stage st holds, rewritten, the ready predicates of ps
\* and ready expressions of the classes es.
HoldsRewritten(st, sc, ps, es) ==
    /\ st.source_columns = sc
    /\ LET ready == SelectSeq(ps, LAMBDA p : Supported(p, sc)) IN
       /\ Len(st.ready_to_go) = Len(ready)
       /\ \A j \in DOMAIN ready : IsRewriteOf(st.ready_to_go[j], ready[j], sc)
    /\ \A i \in DOMAIN st.ready_equivalences :
          \E c \in DOMAIN es :
              \A j \in DOMAIN st.ready_equivalences[i] :
                  \E e \in Range(es[c]) :
                      /\ Supported(e, sc)
                      /\ IsRewriteOf(st.ready_equivalences[i][j], e, sc)

\* What a call of build_filter on a stream of base stages with errs error
\* collections is to give as stream and error collections.
Filtered(sc, ps, es, base, errs, stream2, errs2) ==
    IF SomethingReady(sc, ps, es)
    THEN /\ Len(stream2) = base + 1
         /\ stream2[base + 1].kind = "filter"
         /\ HoldsRewritten(stream2[base + 1], sc, ps, es)
         /\ Len(errs2) = errs + 1
         /\ errs2[errs + 1].kind = "filter"
    ELSE /\ Len(stream2) = base
         /\ Len(errs2) = errs

(* C23: every call of build_filter, the one at the root and the one after   *)
(* each lookup, adds a filter operator and an error collection iff a        *)
(* predicate or a tuple of a class became ready, and otherwise returns the  *)
(* stream as it was with no error collection; in the filter every column    *)
(* reference of a ready predicate or expression is the position of the      *)
(* global column in the provenance list.                                    *)
C23_FilterIffReady ==
    [][/\ (pc = "root" /\ pc' = "order") =>
              Filtered(source_columns', started'.predicates, started'.equivalences,
                       0, 0, update_stream', region_errs')
       /\ (pc = "order" /\ step' = step + 1) =>
              /\ SubSeq(update_stream', 1, Len(update_stream)) = update_stream
              /\ Filtered(source_columns', predicates,
                          RemoveKeys(equivalences, NextKeyRebased),
                          Len(update_stream) + 1, Len(region_errs) + 1,
                          update_stream', region_errs')]_vars

\* A stream holds a lookup that no filter follows and a filter, not at the
\* root, whose predicate refers to a column at another position than its
\* global index.
C23_Witness ==
    /\ pc = "done"
    /\ \E i \in DOMAIN delta_queries :
          LET st == delta_queries[i].stages IN
          /\ \E k \in DOMAIN st :
                /\ st[k].kind = "lookup"
                /\ k = Len(st) \/ st[k + 1].kind = "lookup"
    /\ \E i \in DOMAIN delta_queries :
          LET st == delta_queries[i].stages IN
          \E k \in DOMAIN st :
              /\ k > 1
              /\ st[k].kind = "filter"
              /\ \E j \in DOMAIN plan.predicates :
                    /\ Supported(plan.predicates[j], st[k].source_columns)
                    /\ ~Supported(plan.predicates[j], st[k - 1].source_columns)
                    /\ RewriteColumns(plan.predicates[j], st[k].source_columns)
                           # plan.predicates[j]
                    /\ Contains(st[k].ready_to_go,
                                RewriteColumns(plan.predicates[j], st[k].source_columns))

=============================================================================
